---- MODULE Spec2Model ----
(***************************************************************************)
(* A model of the AVR instruction decoder and ESIL lifter of               *)
(* librz/analysis/p/analysis_avr.c: the CPU model registry, the opcode     *)
(* descriptor table, the per-opcode handlers, the table engine             *)
(* avr_op_analyze and the plugin entry avr_op.                             *)
(*                                                                         *)
(* Representation.                                                         *)
(*  - A buffer is a sequence of bytes; C index i is TLA+ index i + 1.      *)
(*  - ut64 values (addresses, op->jump, op->fail) are represented by their *)
(*    two's-complement signed reading, so UT64_MAX is -1 and addr + k for  *)
(*    a negative int k is plain integer addition.                          *)
(*  - An ESIL string is a sequence of tokens <<kind, text, number>>; the   *)
(*    separator ',' is a token of its own, so the trailing-comma trimming  *)
(*    of avr_op_analyze acts on the text as the C code does.               *)
(***************************************************************************)
EXTENDS Integers, Sequences, FiniteSets, TLC

VARIABLES
  pc_,            \* position of the caller: "idle", "called", "done"
  opcodes,        \* the descriptor table (its cycles field is written by avr_op_analyze)
  cpu_cache,      \* get_cpu_model's static CPU_MODEL *cpu (0 is NULL, else an index of cpu_models)
  inherit_cpu_p,  \* cpu_models[i].inherit_cpu_p (0 is NULL, else an index of cpu_models)
  esil_regs,      \* the interpreter's registers: spmcsr, z, eind and the memory layout bases
  call_,          \* the arguments of the call in progress or last completed
  op,             \* the RzAnalysisOp record of that call
  ret,            \* what avr_op returned (0 while there is none)
  opcode_desc,         \* the descriptor the call's own avr_op_analyze returned (0 is NULL)
  next_op,        \* <<[op, off, len], ...>> once the call's look-ahead has run: its next_op
                  \* afterwards and the buffer offset and len it was given, then the same of
                  \* each look-ahead nested in it; else <<>>
  reads,          \* indices of the caller's buffer the call has read
  depth,          \* deepest level of nested avr_op_analyze calls the call reached (0: none nested)
  calls,          \* how many times avr_op_analyze was entered during the call
  prev,           \* the record and result of the preceding identical call, or NoPrev
  lookup,         \* the last lookup in the CPU model registry and what it returned
  esil_run,       \* the interpreter session: the stack, the registers and the memory written
  arm_il,         \* the ARM instruction being lifted and the state its IL is evaluated in
  mask            \* the call of analysis_mask_avr in progress: the mask, idx and the record

vars ==
  <<pc_, opcodes, cpu_cache, inherit_cpu_p, esil_regs, call_, op, ret, opcode_desc, next_op,
    reads, depth, calls, prev, lookup, esil_run, arm_il, mask>>

(* the state of the registry lookups, the interpreter and the ARM lifter *)
others == <<lookup, esil_run, arm_il, mask>>

(* the decoder's own state *)
decoder ==
  <<pc_, opcodes, call_, op, ret, opcode_desc, next_op, reads, depth, calls, prev>>

-----------------------------------------------------------------------------
(* Bit operations on naturals, nibble by nibble.                           *)

And4 ==
  [a \in 0..15 |-> [b \in 0..15 |->
      ((a % 2) * (b % 2))
    + 2 * (((a \div 2) % 2) * ((b \div 2) % 2))
    + 4 * (((a \div 4) % 2) * ((b \div 4) % 2))
    + 8 * ((a \div 8) * (b \div 8))]]

RECURSIVE And(_, _)
And(a, b) ==
  IF a = 0 \/ b = 0 THEN 0
  ELSE And4[a % 16][b % 16] + 16 * And(a \div 16, b \div 16)

Or(a, b) == a + b - And(a, b)

RECURSIVE Pow2(_)
Pow2(n) == IF n = 0 THEN 1 ELSE 2 * Pow2(n - 1)

Shl(a, n) == a * Pow2(n)

Shr(a, n) == a \div Pow2(n)

(* The C int x | ~lowmask for lowmask = 2^k - 1 and x >= 0: every bit from *)
(* k up is set, so the signed value is (x & lowmask) - 2^k.                *)
OrNot(x, lowmask) == And(x, lowmask) - (lowmask + 1)

-----------------------------------------------------------------------------
(* CPU models and their constants.                                         *)

CPU_CONST_NONE == 0

CPU_CONST_PARAM == 1

CPU_CONST_REG == 2

UT64_MAX == -1

(* MASK(bits) & v for 0 <= v < 2^31: with 31 or more bits the mask keeps v. *)
MASK_and(bits, v) == IF bits >= 31 THEN v ELSE v % Pow2(bits)

cpu_reg_common ==
  << [key |-> "spl", type |-> CPU_CONST_REG, value |-> \h3d, size |-> 1],
     [key |-> "sph", type |-> CPU_CONST_REG, value |-> \h3e, size |-> 1],
     [key |-> "sreg", type |-> CPU_CONST_REG, value |-> \h3f, size |-> 1],
     [key |-> "spmcsr", type |-> CPU_CONST_REG, value |-> \h37, size |-> 1] >>

cpu_memsize_common ==
  << [key |-> "eeprom_size", type |-> CPU_CONST_PARAM, value |-> 512, size |-> 4],
     [key |-> "io_size", type |-> CPU_CONST_PARAM, value |-> \h40, size |-> 4],
     [key |-> "sram_start", type |-> CPU_CONST_PARAM, value |-> \h60, size |-> 4],
     [key |-> "sram_size", type |-> CPU_CONST_PARAM, value |-> 1024, size |-> 4] >>

cpu_memsize_m640_m1280m_m1281_m2560_m2561 ==
  << [key |-> "eeprom_size", type |-> CPU_CONST_PARAM, value |-> 512, size |-> 4],
     [key |-> "io_size", type |-> CPU_CONST_PARAM, value |-> \h1ff, size |-> 4],
     [key |-> "sram_start", type |-> CPU_CONST_PARAM, value |-> \h200, size |-> 4],
     [key |-> "sram_size", type |-> CPU_CONST_PARAM, value |-> \h2000, size |-> 4] >>

cpu_memsize_xmega128a4u ==
  << [key |-> "eeprom_size", type |-> CPU_CONST_PARAM, value |-> \h800, size |-> 4],
     [key |-> "io_size", type |-> CPU_CONST_PARAM, value |-> \h1000, size |-> 4],
     [key |-> "sram_start", type |-> CPU_CONST_PARAM, value |-> \h800, size |-> 4],
     [key |-> "sram_size", type |-> CPU_CONST_PARAM, value |-> \h2000, size |-> 4] >>

cpu_pagesize_5_bits ==
  << [key |-> "page_size", type |-> CPU_CONST_PARAM, value |-> 5, size |-> 1] >>

cpu_pagesize_7_bits ==
  << [key |-> "page_size", type |-> CPU_CONST_PARAM, value |-> 7, size |-> 1] >>

(* inherit "" is the NULL inherit; consts lists the groups up to the NULL. *)
cpu_models ==
  << [model |-> "ATmega640", pc |-> 15, inherit |-> "",
      consts |-> <<cpu_reg_common, cpu_memsize_m640_m1280m_m1281_m2560_m2561, cpu_pagesize_7_bits>>],
     [model |-> "ATxmega128a4u", pc |-> 17, inherit |-> "",
      consts |-> <<cpu_reg_common, cpu_memsize_xmega128a4u, cpu_pagesize_7_bits>>],
     [model |-> "ATmega1280", pc |-> 16, inherit |-> "ATmega640", consts |-> <<>>],
     [model |-> "ATmega1281", pc |-> 16, inherit |-> "ATmega640", consts |-> <<>>],
     [model |-> "ATmega2560", pc |-> 17, inherit |-> "ATmega640", consts |-> <<>>],
     [model |-> "ATmega2561", pc |-> 17, inherit |-> "ATmega640", consts |-> <<>>],
     [model |-> "ATmega88", pc |-> 8, inherit |-> "ATmega8", consts |-> <<>>],
     [model |-> "ATmega8", pc |-> 13, inherit |-> "",
      consts |-> <<cpu_reg_common, cpu_memsize_common, cpu_pagesize_5_bits>>] >>

(* CPU_PC_SIZE without the byte a width that is no multiple of 8 needs *)
CPU_PC_SIZE_floor(cpu) == Shr(cpu_models[cpu].pc, 3)

CPU_PC_SIZE(cpu) ==
  Shr(cpu_models[cpu].pc, 3) + (IF And(cpu_models[cpu].pc, 7) # 0 THEN 1 ELSE 0)

(* The strings the model compares without regard to case, folded to lower  *)
(* case as rz_str_casecmp and rz_str_ncasecmp fold them.                   *)
LowerCase ==
  [s \in {"ATmega640", "ATxmega128a4u", "ATmega1280", "ATmega1281", "ATmega2560",
          "ATmega2561", "ATmega88", "ATmega8", "atmega88", "ATMEGA2560", "avr"} |->
     CASE s = "ATmega640" -> "atmega640"
       [] s = "ATxmega128a4u" -> "atxmega128a4u"
       [] s = "ATmega1280" -> "atmega1280"
       [] s = "ATmega1281" -> "atmega1281"
       [] s \in {"ATmega2560", "ATMEGA2560"} -> "atmega2560"
       [] s = "ATmega2561" -> "atmega2561"
       [] s \in {"ATmega88", "atmega88"} -> "atmega88"
       [] s = "ATmega8" -> "atmega8"
       [] s = "avr" -> "avr"]

(* rz_str_casecmp(a, b) == 0 *)
rz_str_casecmp_eq(a, b) == LowerCase[a] = LowerCase[b]

(* !STR_BEGINS(cpu->model, "ATxmega"): rz_str_ncasecmp over strlen("ATxmega") *)
(* characters is 0, which among the names of cpu_models holds of one.      *)
STR_BEGINS_ATxmega_is0(cpu) == LowerCase[cpu_models[cpu].model] \in {"atxmega128a4u"}

(* __get_cpu_model_recursive and get_cpu_model call each other; the result *)
(* is [cpu, cache, inh]: the model returned, the static cache and the      *)
(* inherit_cpu_p fields afterwards.                                        *)
RECURSIVE __get_cpu_model_recursive(_, _, _)
RECURSIVE get_cpu_model(_, _, _)

RECURSIVE cpu_search(_, _)
cpu_search(model, i) ==
  IF i >= Len(cpu_models) THEN i
  ELSE IF rz_str_casecmp_eq(model, cpu_models[i].model) THEN i
  ELSE cpu_search(model, i + 1)

(* the search that resolves the parent and does not keep it *)
__get_cpu_model_recursive_unkept(model, cache, inh) ==
  LET cpu == cpu_search(model, 1)
  IN IF cpu_models[cpu].inherit # "" /\ inh[cpu] = 0
     THEN LET r == get_cpu_model(cpu_models[cpu].inherit, cache, inh)
          IN [cpu |-> cpu, cache |-> r.cache, inh |-> r.inh]
     ELSE [cpu |-> cpu, cache |-> cache, inh |-> inh]

__get_cpu_model_recursive(model, cache, inh) ==
  LET cpu == cpu_search(model, 1)
  IN IF cpu_models[cpu].inherit # "" /\ inh[cpu] = 0
     THEN LET r == get_cpu_model(cpu_models[cpu].inherit, cache, inh)
          IN [cpu |-> cpu, cache |-> r.cache, inh |-> [r.inh EXCEPT ![cpu] = r.cpu]]
     ELSE [cpu |-> cpu, cache |-> cache, inh |-> inh]

(* get_cpu_model that returns the cached model without comparing its name *)
get_cpu_model_stale(model, cache, inh) ==
  IF cache # 0
  THEN [cpu |-> cache, cache |-> cache, inh |-> inh]
  ELSE LET r == __get_cpu_model_recursive(model, cache, inh)
       IN [cpu |-> r.cpu, cache |-> r.cpu, inh |-> r.inh]

get_cpu_model(model, cache, inh) ==
  IF cache # 0 /\ rz_str_casecmp_eq(model, cpu_models[cache].model)
  THEN [cpu |-> cache, cache |-> cache, inh |-> inh]
  ELSE LET r == __get_cpu_model_recursive(model, cache, inh)
       IN [cpu |-> r.cpu, cache |-> r.cpu, inh |-> r.inh]

RECURSIVE const_scan(_, _, _, _, _, _)
const_scan(cpu, type, v, g, k, inh) ==
  LET groups == cpu_models[cpu].consts
  IN IF g > Len(groups)
     THEN IF inh[cpu] # 0 THEN const_scan(inh[cpu], type, v, 1, 1, inh) ELSE <<>>
     ELSE IF k > Len(groups[g]) THEN const_scan(cpu, type, v, g + 1, 1, inh)
     ELSE LET citem == groups[g][k]
          IN IF citem.value = MASK_and(citem.size * 8, v)
                /\ (type = CPU_CONST_NONE \/ type = citem.type)
             THEN <<citem>>
             ELSE const_scan(cpu, type, v, g, k + 1, inh)

(* const_by_value: <<citem>> for the entry found, <<>> for NULL.           *)
const_by_value(cpu, type, v, inh) == const_scan(cpu, type, v, 1, 1, inh)

-----------------------------------------------------------------------------
(* ESIL text and the RzAnalysisOp record.                                  *)

Sep == <<"sep", ",", 0>>

(* Tokens are equal exactly when their texts are, but for a "0x%x" number  *)
(* and a hexadecimal literal of a format string, which no handler mixes.   *)

(* a name or operator of a format string, taken literally *)
L(text) == <<"lit", text, 0>>

(* a hexadecimal literal of a format string and its value *)
Hx(text, value) == <<"hex", text, value>>

(* "r%d" *)
R(n) == <<"r%d", "r", n>>

(* "%d", and a decimal literal of a format string *)
D(n) == <<"%d", "", n>>

(* "0x%x" *)
X(n) == <<"0x%x", "", n>>

(* "%" PFMT64d *)
Q(n) == D(n)

(* "-%d" *)
Neg(n) == IF n > 0 THEN D(0 - n) ELSE <<"-%d", "", n>>

(* "ramp%c" *)
Ramp(ch) == L(CASE ch = "x" -> "rampx" [] ch = "y" -> "rampy" [] ch = "z" -> "rampz" [] ch = "d" -> "rampd")

(* "_%s" *)
Mem(mem) == L(CASE mem = "ram" -> "_ram" [] mem = "prog" -> "_prog")

(* "[%d]" and "=[%d]", and the literals "[1]" and "=[1]" *)
Ld(n) == <<"[%d]", "", n>>

St(n) == <<"=[%d]", "", n>>

(* the tokens of s, each followed by ',' *)
Cm(s) == [i \in 1..(2 * Len(s)) |-> IF i % 2 = 1 THEN s[(i + 1) \div 2] ELSE Sep]

(* the tokens of s separated by ',' with none after the last *)
Jn(s) == SubSeq(Cm(s), 1, 2 * Len(s) - 1)

(* RzAnalysisOp next_op = { 0 }: type 0 is RZ_ANALYSIS_OP_TYPE_NULL and     *)
(* family 0 is RZ_ANALYSIS_OP_FAMILY_CPU, neither the Unknown value.       *)
ZeroOp ==
  [addr |-> 0, size |-> 0, cycles |-> 0, type |-> "NULL", family |-> "CPU",
   jump |-> 0, fail |-> 0, val |-> 0, ptr |-> 0, nopcode |-> 0, eob |-> FALSE,
   type2 |-> 0, mmio_address |-> 0, mnemonic |-> "", esil |-> <<>>]

(* a record the caller of avr_op initialised: its targets hold UT64_MAX    *)
InitOp ==
  [ZeroOp EXCEPT !.jump = UT64_MAX, !.fail = UT64_MAX, !.val = UT64_MAX, !.ptr = UT64_MAX]

(* buf[i] of the call a, whose buf points a.off bytes into the caller's buffer *)
Byte(a, i) == a.buf[a.off + i + 1]

(* ESIL_A *)
ESIL_A(c, toks) == [c EXCEPT !.op.esil = @ \o toks]

(* the handler's path reads buf[0..n-1] *)
Reads(c, a, n) == [c EXCEPT !.reads = @ \cup {a.off + i : i \in 0..(n - 1)}]

(* ((buf[0] >> 4) & 0xf) | ((buf[1] & 1) << 4) *)
Rd5(a) == Or(And(Shr(Byte(a, 0), 4), \hf), Shl(And(Byte(a, 1), 1), 4))

(* (buf[0] & 0xf) | ((buf[1] & 2) << 3) *)
Rr5(a) == Or(And(Byte(a, 0), \hf), Shl(And(Byte(a, 1), 2), 3))

(* ((buf[0] >> 4) & 0xf) + 16 *)
Rd16(a) == And(Shr(Byte(a, 0), 4), \hf) + 16

(* ((buf[1] & 0x0f) << 4) | (buf[0] & 0x0f) *)
K8(a) == Or(Shl(And(Byte(a, 1), \hf), 4), And(Byte(a, 0), \hf))

__generic_io_dest(port, write, cpu, inh) ==
  LET c == const_by_value(cpu, CPU_CONST_REG, port, inh)
  IN IF c # <<>>
     THEN IF write THEN <<L(c[1].key), Sep, L("=")>> ELSE <<L(c[1].key)>>
     ELSE Jn(<<L("_io"), D(port), L("+"), IF write THEN St(1) ELSE Ld(1)>>)

__generic_ld_st(c, mem, ireg, use_ramp, prepostdec, offset, st) ==
  LET c1 == IF ireg # ""
            THEN LET p1 == IF prepostdec < 0
                           THEN ESIL_A(c, Cm(<<D(1), L(ireg), L("-"), L(ireg), L("=")>>))
                           ELSE c
                     p2 == ESIL_A(p1, Cm(<<L(ireg)>>))
                 IN IF offset # 0 THEN ESIL_A(p2, Cm(<<D(offset), L("+")>>)) ELSE p2
            ELSE ESIL_A(c, Cm(<<D(offset)>>))
      c2 == IF use_ramp
            THEN ESIL_A(c1, Cm(<<D(16), Ramp(IF ireg # "" THEN ireg ELSE "d"), L("<<"), L("+")>>))
            ELSE c1
      c3 == ESIL_A(c2, Cm(<<Mem(mem), L("+")>>))
      c4 == ESIL_A(c3, Cm(<<IF st THEN St(1) ELSE Ld(1)>>))
  IN IF ireg # "" /\ prepostdec > 0
     THEN ESIL_A(c4, Cm(<<D(1), L(ireg), L("+"), L(ireg), L("=")>>))
     ELSE c4

__generic_pop(c, sz) ==
  IF sz > 1
  THEN ESIL_A(c, Cm(<<D(1), L("sp"), L("+"), L("_ram"), L("+"), Ld(sz), D(sz), L("sp"), L("+=")>>))
  ELSE ESIL_A(c, Cm(<<D(1), L("sp"), L("+="), L("sp"), L("_ram"), L("+"), Ld(1)>>))

__generic_push(c, sz) ==
  LET c1 == ESIL_A(c, Cm(<<L("sp"), L("_ram"), L("+")>>))
      c2 == IF sz > 1 THEN ESIL_A(c1, Cm(<<Neg(sz - 1), L("+")>>)) ELSE c1
      c3 == ESIL_A(c2, Cm(<<St(sz)>>))
  IN ESIL_A(c3, Cm(<<Neg(sz), L("sp"), L("+=")>>))

-----------------------------------------------------------------------------
(* The opcode handlers.  A handler takes the context c = [op, tab, reads,  *)
(* depth] (the record being filled, the descriptor table, the buffer       *)
(* indices read, the deepest nested call) and the call a = [buf, off, len, *)
(* cpu, inh, regs, level], and gives the context it leaves.                *)

RECURSIVE avr_op_analyze(_, _, _)

_inst__adc(c, a) ==
  IF a.len < 2 THEN c
  ELSE LET d == Rd5(a)
           r == Rr5(a)
       IN Reads(ESIL_A(c,
            Cm(<<R(r), L("cf"), L("+"), R(d), L("+="),
                 L("$z"), L("zf"), L(":="),
                 D(3), L("$c"), L("hf"), L(":="),
                 D(7), L("$c"), L("cf"), L(":="),
                 D(7), L("$o"), L("vf"), L(":=")>>)
            \o Jn(<<Hx("0x80", 128), R(d), L("&"), L("!"), L("!"), L("nf"), L(":=")>>)), a, 2)

_inst__add(c, a) ==
  IF a.len < 2 THEN c
  ELSE LET d == Rd5(a)
           r == Rr5(a)
       IN Reads(ESIL_A(c,
            Cm(<<R(r), R(d), L("+="),
                 L("$z"), L("zf"), L(":="),
                 D(3), L("$c"), L("hf"), L(":="),
                 D(7), L("$c"), L("cf"), L(":="),
                 D(7), L("$o"), L("vf"), L(":="),
                 Hx("0x80", 128), R(d), L("&"), L("!"), L("!"), L("nf"), L(":=")>>)), a, 2)

_inst__adiw(c, a) ==
  IF a.len < 1 THEN c
  ELSE LET d == Shr(And(Byte(a, 0), \h30), 3) + 24
           k == Or(And(Byte(a, 0), \h0f), And(Shr(Byte(a, 0), 2), \h30))
       IN Reads(ESIL_A([c EXCEPT !.op.val = k],
            Cm(<<D(7), R(d + 1), L(">>"),
                 D(8), D(k), D(8), R(d + 1), L("<<"), R(d), L("|"), L("+"), L("DUP"),
                 R(d), L("="), L(">>"), R(d + 1), L("="),
                 L("DUP"), L("!"), D(7), R(d + 1), L(">>"), L("&"), L("vf"), L(":="),
                 R(d + 1), Hx("0x80", 128), L("&"), L("!"), L("!"), L("nf"), L(":="),
                 D(8), R(d + 1), L("<<"), R(d), L("|"), L("!"), L("zf"), L(":="),
                 D(7), R(d + 1), L(">>"), L("!"), L("&"), L("cf"), L(":=")>>)
            \o Jn(<<L("vf"), L("nf"), L("^"), L("sf"), L(":=")>>)), a, 1)

_inst__and(c, a) ==
  IF a.len < 2 THEN c
  ELSE LET d == Rd5(a)
           r == Rr5(a)
       IN Reads(ESIL_A(c,
            Cm(<<R(r), R(d), L("&="), L("$z"), L("zf"), L(":="),
                 R(d), Hx("0x80", 128), L("&"), L("!"), L("!"), L("nf"), L(":="),
                 D(0), L("vf"), L(":="), L("nf"), L("sf"), L(":=")>>)), a, 2)

_inst__andi(c, a) ==
  IF a.len < 2 THEN c
  ELSE LET d == Rd16(a)
           k == K8(a)
       IN Reads(ESIL_A([c EXCEPT !.op.val = k],
            Cm(<<D(k), R(d), L("&="), L("$z"), L("zf"), L(":="),
                 R(d), Hx("0x80", 128), L("&"), L("!"), L("!"), L("nf"), L(":="),
                 D(0), L("vf"), L(":="), L("nf"), L("sf"), L(":=")>>)), a, 2)

_inst__asr(c, a) ==
  IF a.len < 2 THEN c
  ELSE LET d == Rd5(a)
       IN Reads(ESIL_A(c,
            Cm(<<R(d), Hx("0x1", 1), L("&"), L("cf"), L(":="),
                 Hx("0x1", 1), R(d), L(">>"), R(d), Hx("0x80", 128), L("&"), L("|"),
                 L("$z"), L("zf"), L(":="),
                 R(d), Hx("0x80", 128), L("&"), L("!"), L("!"), L("nf"), L(":="),
                 L("nf"), L("cf"), L("^"), L("vf"), L(":="),
                 L("nf"), L("vf"), L("^"), L("sf"), L(":=")>>)), a, 2)

_inst__bclr(c, a) ==
  IF a.len < 1 THEN c
  ELSE LET s == And(Shr(Byte(a, 0), 4), 7)
       IN Reads(ESIL_A(c,
            Cm(<<Hx("0xff", 255), D(s), D(1), L("<<"), L("^"), L("sreg"), L("&=")>>)), a, 1)

_inst__bld(c, a) ==
  IF a.len < 2 THEN c
  ELSE LET d == Or(Shl(And(Byte(a, 1), 1), 4), And(Shr(Byte(a, 0), 4), \hf))
           b == And(Byte(a, 0), 7)
       IN Reads(ESIL_A(c,
            Cm(<<R(d), D(b), D(1), L("<<"), Hx("0xff", 255), L("^"), L("&"),
                 D(b), L("tf"), L("<<"), L("|"), R(d), L("=")>>)), a, 2)

_inst__brbx(c, a) ==
  IF a.len < 2 THEN c
  ELSE LET s == And(Byte(a, 0), 7)
           k == Or(Shl(And(Byte(a, 1), 3), 6), Shr(And(Byte(a, 0), \hf8), 2))
           jump == c.op.addr + (IF And(Byte(a, 1), 2) # 0 THEN OrNot(k, \h7f) ELSE k) + 2
           c1 == [c EXCEPT !.op.jump = jump, !.op.fail = c.op.addr + c.op.size, !.op.cycles = 1]
       IN Reads(ESIL_A(c1,
            Cm(<<D(s), D(1), L("<<"), L("sreg"), L("&")>>)
            \o (IF And(Byte(a, 1), 4) # 0 THEN Cm(<<L("!")>>) ELSE Cm(<<L("!"), L("!")>>))
            \o Cm(<<L("?{"), Q(jump), L("pc"), L("="), L("}")>>)), a, 2)

_inst__break(c, a) == ESIL_A(c, <<L("BREAK")>>)

_inst__bset(c, a) ==
  IF a.len < 1 THEN c
  ELSE LET s == And(Shr(Byte(a, 0), 4), 7)
       IN Reads(ESIL_A(c, Cm(<<D(s), D(1), L("<<"), L("sreg"), L("|=")>>)), a, 1)

_inst__bst(c, a) ==
  IF a.len < 2 THEN c
  ELSE Reads(ESIL_A(c,
         Cm(<<R(Or(Shl(And(Byte(a, 1), 1), 4), And(Shr(Byte(a, 0), 4), \hf))),
              D(And(Byte(a, 0), 7)), D(1), L("<<"), L("&"), L("!"), L("!"), L("tf"), L("=")>>)), a, 2)

(* (buf[2] << 1) | (buf[3] << 9) | (buf[1] & 0x01) << 23 | (buf[0] & 0x01) << 17 | (buf[0] & 0xf0) << 14 *)
LongTarget(a) ==
  Or(Or(Or(Or(Shl(Byte(a, 2), 1), Shl(Byte(a, 3), 9)), Shl(And(Byte(a, 1), 1), 23)),
        Shl(And(Byte(a, 0), 1), 17)), Shl(And(Byte(a, 0), \hf0), 14))

(* _inst__call without its check of len *)
_inst__call_unguarded(c, a) ==
  LET jump == LongTarget(a)
      c1 == [c EXCEPT !.op.jump = jump, !.op.fail = c.op.addr + c.op.size, !.op.cycles = 3]
      c2 == __generic_push(ESIL_A(c1, Cm(<<L("pc")>>)), CPU_PC_SIZE(a.cpu))
  IN Reads(ESIL_A(c2, Cm(<<Q(jump), L("pc"), L("=")>>)), a, 4)

_inst__call(c, a) ==
  IF a.len < 4 THEN c
  ELSE LET jump == LongTarget(a)
           cyc == IF cpu_models[a.cpu].pc <= 16 THEN 3 ELSE 4
           c1 == [c EXCEPT !.op.jump = jump, !.op.fail = c.op.addr + c.op.size,
                           !.op.cycles = IF STR_BEGINS_ATxmega_is0(a.cpu) THEN cyc - 1 ELSE cyc]
           c2 == ESIL_A(c1, Cm(<<L("pc")>>))
           c3 == __generic_push(c2, CPU_PC_SIZE(a.cpu))
       IN Reads(ESIL_A(c3, Cm(<<Q(jump), L("pc"), L("=")>>)), a, 4)

_inst__cbi(c, a) ==
  IF a.len < 1 THEN c
  ELSE LET p == And(Shr(Byte(a, 0), 3), \h1f)
           b == And(Byte(a, 0), 7)
           c1 == [c EXCEPT !.op.family = "IO", !.op.type2 = 1, !.op.val = p]
           c2 == ESIL_A(c1, Cm(<<Hx("0xff", 255), D(b), D(1), L("<<"), L("^")>>)
                            \o __generic_io_dest(p, FALSE, a.cpu, a.inh) \o <<Sep, L("&"), Sep>>)
       IN Reads(ESIL_A(c2, __generic_io_dest(p, TRUE, a.cpu, a.inh) \o <<Sep>>), a, 1)

_inst__com(c, a) ==
  IF a.len < 2 THEN c
  ELSE LET r == Rd5(a)
       IN Reads(ESIL_A(c,
            Jn(<<R(r), Hx("0xff", 255), L("-"), R(r), L("="), L("$z"), L("zf"), L(":="),
                 D(0), L("cf"), L(":="), D(0), L("vf"), L(":="),
                 R(r), Hx("0x80", 128), L("&"), L("!"), L("!"), L("nf"), L(":="),
                 L("vf"), L("nf"), L("^"), L("sf"), L(":=")>>)), a, 2)

(* "$z,zf,:=,3,$b,hf,:=,8,$b,cf,:=,7,$o,vf,:=," *)
BorrowFlags ==
  Cm(<<L("$z"), L("zf"), L(":="), D(3), L("$b"), L("hf"), L(":="),
       D(8), L("$b"), L("cf"), L(":="), D(7), L("$o"), L("vf"), L(":=")>>)

(* "vf,nf,^,sf,:=" *)
SignFlag == Jn(<<L("vf"), L("nf"), L("^"), L("sf"), L(":=")>>)

_inst__cp(c, a) ==
  IF a.len < 2 THEN c
  ELSE LET r == Rr5(a)
           d == Rd5(a)
       IN Reads(ESIL_A(c,
            Cm(<<R(r), R(d), L("-"), Hx("0x80", 128), L("&"), L("!"), L("!"), L("nf"), L(":="),
                 R(r), R(d), L("==")>>) \o BorrowFlags \o SignFlag), a, 2)

_inst__cpc(c, a) ==
  IF a.len < 2 THEN c
  ELSE LET r == Rr5(a)
           d == Rd5(a)
       IN Reads(ESIL_A(c,
            Cm(<<L("cf"), R(r), L("+"), L("DUP"), R(d), L("-"), Hx("0x80", 128), L("&"),
                 L("!"), L("!"), L("nf"), L(":="),
                 R(d), L("==")>>) \o BorrowFlags \o SignFlag), a, 2)

_inst__cpi(c, a) ==
  IF a.len < 2 THEN c
  ELSE LET d == Rd16(a)
           k == K8(a)
       IN Reads(ESIL_A(c,
            Cm(<<D(k), R(d), L("-"), Hx("0x80", 128), L("&"), L("!"), L("!"), L("nf"), L(":="),
                 D(k), R(d), L("==")>>) \o BorrowFlags \o SignFlag), a, 2)

(* the handler's context c once the nested call n, given the arguments na, *)
(* has returned: op is the handler's record again; next_op holds what the  *)
(* call left in next_op and the buffer offset and the len the call was     *)
(* given, followed by the same of the look-aheads that call made in turn   *)
Looked(c, na, n) ==
  [n.c EXCEPT !.op = c.op, !.fail = c.fail,
              !.next_op = <<[op |-> n.c.op, off |-> na.off, len |-> na.len]>> \o n.c.next_op]

(* the arguments of the nested call: buf + op->size, len - op->size *)
Ahead(c, a) ==
  [a EXCEPT !.off = a.off + c.op.size, !.len = a.len - c.op.size, !.level = a.level + 1]

(* the look-ahead of cpse, sbix and sbrx: avr_op_analyze on a zeroed       *)
(* next_op at op->addr + op->size over (buf + op->size, len - op->size)    *)
LookAhead(c, a) ==
  Looked(c, Ahead(c, a),
         avr_op_analyze([c EXCEPT !.op = ZeroOp, !.next_op = <<>>], c.op.addr + c.op.size,
                        Ahead(c, a)))

(* what the three skip handlers do after the look-ahead: op->jump is       *)
(* op->addr + next_op.size + 2, op->fail and op->cycles are set and the    *)
(* test is followed by the conditional assignment of pc                    *)
SkipOver(c, fail, test) ==
  LET jump == c.op.addr + c.next_op[1].op.size + 2
  IN ESIL_A([c EXCEPT !.op.jump = jump, !.op.fail = fail, !.op.cycles = 1],
            test \o Cm(<<L("?{"), Q(jump), L("pc"), L("="), L("}")>>))

_inst__cpse(c, a) ==
  IF a.len < 2 THEN c
  ELSE Reads(SkipOver(LookAhead(c, a), c.op.addr + 2,
                      Cm(<<R(Rr5(a)), R(Rd5(a)), L("^"), L("!")>>)), a, 2)

_inst__dec(c, a) ==
  IF a.len < 2 THEN c
  ELSE LET d == Rd5(a)
       IN Reads(ESIL_A(c,
            Cm(<<Hx("0x1", 1), R(d), L("-="),
                 D(7), L("$o"), L("vf"), L(":="),
                 R(d), Hx("0x80", 128), L("&"), L("!"), L("!"), L("nf"), L(":="),
                 L("$z"), L("zf"), L(":="),
                 L("vf"), L("nf"), L("^"), L("sf"), L(":=")>>)), a, 2)

_inst__des(c, a) ==
  LET round == Shr(Byte(a, 0), 4)
  IN Reads([c EXCEPT !.op.type = "CRYPTO", !.op.cycles = 1,
                     !.op.esil = Jn(<<D(round), L("des")>>)], a, 1)

_inst__eijmp(c, a) ==
  LET z == a.regs.z
      eind == a.regs.eind
  IN ESIL_A([c EXCEPT !.op.jump = Shl(Shl(eind, 16) + z, 1), !.op.cycles = 2],
       Cm(<<D(1), L("z"), D(16), L("eind"), L("<<"), L("+"), L("<<"), L("pc"), L("=")>>))

_inst__eicall(c, a) ==
  LET c1 == ESIL_A(c, Cm(<<L("pc")>>))
      c2 == __generic_push(c1, CPU_PC_SIZE(a.cpu))
      c3 == _inst__eijmp(c2, a)
  IN [c3 EXCEPT !.op.cycles = IF STR_BEGINS_ATxmega_is0(a.cpu) THEN 3 ELSE 4]

_inst__elpm(c, a) ==
  IF a.len < 2 THEN c
  ELSE LET d == IF And(Byte(a, 1), \hfe) = \h90
                THEN Or(Shl(And(Byte(a, 1), 1), 4), And(Shr(Byte(a, 0), 4), \hf))
                ELSE 0
           c1 == ESIL_A(c, Cm(<<D(16), L("rampz"), L("<<"), L("z"), L("+"), L("_prog"), L("+"), Ld(1),
                                 R(d), L("=")>>))
       IN Reads(IF And(Byte(a, 1), \hfe) = \h90 /\ And(Byte(a, 0), \hf) = 7
                THEN ESIL_A(c1, Cm(<<D(16), D(1), L("z"), L("+"), L("DUP"), L("z"), L("="),
                                     L(">>"), D(1), L("&"), L("rampz"), L("+=")>>))
                ELSE c1, a, 2)

_inst__eor(c, a) ==
  IF a.len < 2 THEN c
  ELSE LET d == Rd5(a)
           r == Rr5(a)
       IN Reads(ESIL_A(c,
            Jn(<<R(r), R(d), L("^="), L("$z"), L("zf"), L(":="), D(0), L("vf"), L(":="),
                 R(d), Hx("0x80", 128), L("&"), L("!"), L("!"), L("nf"), L(":="),
                 L("nf"), L("sf"), L(":=")>>)), a, 2)

(* "8,r1,<<,r0,|,DUP,0x8000,&,!,!,cf,:=," and "!,zf,:=" *)
MulFlags ==
  Cm(<<D(8), R(1), L("<<"), R(0), L("|"), L("DUP"), Hx("0x8000", 32768), L("&"),
       L("!"), L("!"), L("cf"), L(":=")>>) \o Jn(<<L("!"), L("zf"), L(":=")>>)

(* "r%d,DUP,0x80,&,?{,0xff00,|,}," *)
SignExtend(n) ==
  Cm(<<R(n), L("DUP"), Hx("0x80", 128), L("&"), L("?{"), Hx("0xff00", 65280), L("|"), L("}")>>)

_inst__fmul(c, a) ==
  IF a.len < 1 THEN c
  ELSE LET d == And(Shr(Byte(a, 0), 4), 7) + 16
           r == And(Byte(a, 0), 7) + 16
       IN Reads(ESIL_A(c,
            Cm(<<D(8), Hx("0xffff", 65535), D(1), R(r), R(d), L("*"), L("<<"), L("&"), L("DUP"),
                 R(0), L("="), L(">>"), R(1), L("=")>>) \o MulFlags), a, 1)

_inst__fmuls(c, a) ==
  IF a.len < 1 THEN c
  ELSE LET d == And(Shr(Byte(a, 0), 4), 7) + 16
           r == And(Byte(a, 0), 7) + 16
       IN Reads(ESIL_A(c,
            Cm(<<D(8), D(1)>>) \o SignExtend(d) \o SignExtend(r)
            \o Cm(<<L("*"), L("<<"), L("DUP"), R(0), L("="), L(">>"), R(1), L("=")>>)
            \o MulFlags), a, 1)

_inst__fmulsu(c, a) ==
  IF a.len < 1 THEN c
  ELSE LET d == And(Shr(Byte(a, 0), 4), 7) + 16
           r == And(Byte(a, 0), 7) + 16
       IN Reads(ESIL_A(c,
            Cm(<<D(8), D(1)>>) \o SignExtend(d)
            \o Cm(<<R(r), L("*"), L("<<"), L("DUP"), R(0), L("="), L(">>"), R(1), L("=")>>)
            \o MulFlags), a, 1)

(* _inst__ijmp with the target it computed written into the program, as   *)
(* the direct jumps write theirs                                          *)
_inst__ijmp_literal_target(c, a) ==
  ESIL_A([c EXCEPT !.op.jump = Shl(a.regs.z, 1), !.op.cycles = 2],
         Cm(<<Q(Shl(a.regs.z, 1)), L("pc"), L("=")>>))

_inst__ijmp(c, a) ==
  LET z == a.regs.z
  IN ESIL_A([c EXCEPT !.op.jump = Shl(z, 1), !.op.cycles = 2],
       Cm(<<D(1), L("z"), L("<<"), L("pc"), L("=")>>))

_inst__icall(c, a) ==
  LET c1 == ESIL_A(c, Cm(<<L("pc")>>))
      c2 == __generic_push(c1, CPU_PC_SIZE(a.cpu))
      c3 == _inst__ijmp(c2, a)
  IN IF STR_BEGINS_ATxmega_is0(a.cpu) THEN [c3 EXCEPT !.op.cycles = @ - 1] ELSE c3

_inst__in(c, a) ==
  IF a.len < 2 THEN c
  ELSE LET r == Rd5(a)
           p == Or(And(Byte(a, 0), \h0f), Shl(And(Byte(a, 1), 6), 3))
           c1 == [c EXCEPT !.op.type2 = 0, !.op.val = p, !.op.mmio_address = p, !.op.family = "IO"]
       IN Reads(ESIL_A(c1, __generic_io_dest(p, FALSE, a.cpu, a.inh)
                           \o <<Sep>> \o Cm(<<R(r), L("=")>>)), a, 2)

_inst__inc(c, a) ==
  IF a.len < 2 THEN c
  ELSE LET d == Rd5(a)
       IN Reads(ESIL_A(c,
            Cm(<<D(1), R(d), L("+="),
                 D(7), L("$o"), L("vf"), L(":="),
                 R(d), Hx("0x80", 128), L("&"), L("!"), L("!"), L("nf"), L(":="),
                 L("$z"), L("zf"), L(":="),
                 L("vf"), L("nf"), L("^"), L("sf"), L(":=")>>)), a, 2)

_inst__jmp(c, a) ==
  IF a.len < 4 THEN c
  ELSE LET jump == LongTarget(a)
       IN Reads(ESIL_A([c EXCEPT !.op.jump = jump, !.op.cycles = 3],
                       Cm(<<Q(jump), L("pc"), L("=")>>)), a, 4)

(* lac, las and lat: read (RAMPZ:Z), combine with Rd by `how`, store back *)
LoadAndStore(c, a, how) ==
  IF a.len < 2 THEN c
  ELSE LET d == Rd5(a)
           c1 == __generic_ld_st(c, "ram", "z", TRUE, 0, 0, FALSE)
           c2 == ESIL_A(c1, how \o Cm(<<L("DUP"), R(d), L("=")>>))
       IN Reads(__generic_ld_st(c2, "ram", "z", TRUE, 0, 0, TRUE), a, 2)

_inst__lac(c, a) ==
  LoadAndStore(c, a, IF a.len < 2 THEN <<>> ELSE Cm(<<R(Rd5(a)), Hx("0xff", 255), L("^"), L("&")>>))

_inst__las(c, a) ==
  LoadAndStore(c, a, IF a.len < 2 THEN <<>> ELSE Cm(<<R(Rd5(a)), L("|")>>))

_inst__lat(c, a) ==
  LoadAndStore(c, a, IF a.len < 2 THEN <<>> ELSE Cm(<<R(Rd5(a)), L("^")>>))

(* !STR_BEGINS(cpu->model, "ATxmega") && op->cycles > 1 ? op->cycles - 1 : op->cycles *)
OptimizedCycles(cpu, cycles) ==
  IF STR_BEGINS_ATxmega_is0(cpu) /\ cycles > 1 THEN cycles - 1 ELSE cycles

_inst__ld(c, a) ==
  IF a.len < 2 THEN c
  ELSE LET low == And(Byte(a, 0), \hf)
           c1 == __generic_ld_st(c, "ram", "x", FALSE,
                                 IF low = \he THEN -1 ELSE IF low = \hd THEN 1 ELSE 0, 0, FALSE)
           c2 == ESIL_A(c1, Cm(<<R(Or(Shl(And(Byte(a, 1), 1), 4), And(Shr(Byte(a, 0), 4), \hf))), L("=")>>))
           cyc == IF And(Byte(a, 0), 3) = 0 THEN 2 ELSE IF And(Byte(a, 0), 3) = 1 THEN 2 ELSE 3
       IN Reads([c2 EXCEPT !.op.cycles = OptimizedCycles(a.cpu, cyc)], a, 2)

(* (buf[1] & 0x20) | ((buf[1] & 0xc) << 1) | (buf[0] & 0x7) *)
Displacement(a) ==
  Or(Or(And(Byte(a, 1), \h20), Shl(And(Byte(a, 1), \hc), 1)), And(Byte(a, 0), 7))

_inst__ldd(c, a) ==
  IF a.len < 2 THEN c
  ELSE LET offset == Displacement(a)
           plain == And(Byte(a, 1), \h10) = 0
           c1 == __generic_ld_st(c, "ram", IF And(Byte(a, 0), 8) # 0 THEN "y" ELSE "z", FALSE,
                                 IF plain THEN 0 ELSE IF And(Byte(a, 0), 1) # 0 THEN 1 ELSE -1,
                                 IF plain THEN offset ELSE 0, FALSE)
           c2 == ESIL_A(c1, Cm(<<R(Or(Shl(And(Byte(a, 1), 1), 4), And(Shr(Byte(a, 0), 4), \hf))), L("=")>>))
           cyc == IF plain THEN (IF offset = 0 THEN 1 ELSE 3)
                  ELSE IF And(Byte(a, 0), 3) = 0 THEN 1
                  ELSE IF And(Byte(a, 0), 3) = 1 THEN 2 ELSE 3
       IN Reads([c2 EXCEPT !.op.cycles = OptimizedCycles(a.cpu, cyc)], a, 2)

_inst__ldi(c, a) ==
  IF a.len < 2 THEN c
  ELSE LET k == And(Byte(a, 0), \hf) + Shl(And(Byte(a, 1), \hf), 4)
           d == Rd16(a)
       IN Reads(ESIL_A([c EXCEPT !.op.val = k], Cm(<<X(k), R(d), L("=")>>)), a, 2)

_inst__lds(c, a) ==
  IF a.len < 4 THEN c
  ELSE LET d == Rd5(a)
           k == Or(Shl(Byte(a, 3), 8), Byte(a, 2))
           c1 == __generic_ld_st([c EXCEPT !.op.ptr = k], "ram", "", TRUE, 0, k, FALSE)
       IN Reads(ESIL_A(c1, Cm(<<R(d), L("=")>>)), a, 4)

_inst__sts(c, a) ==
  IF a.len < 4 THEN c
  ELSE LET r == Rd5(a)
           k == Or(Shl(Byte(a, 3), 8), Byte(a, 2))
           c1 == ESIL_A([c EXCEPT !.op.ptr = k], Cm(<<R(r)>>))
           c2 == __generic_ld_st(c1, "ram", "", TRUE, 0, k, TRUE)
       IN Reads([c2 EXCEPT !.op.cycles = 2], a, 4)

_inst__lpm(c, a) ==
  IF a.len < 2 THEN c
  ELSE LET ins == Or(Shl(Byte(a, 1), 8), Byte(a, 0))
           c1 == __generic_ld_st(c, "prog", "z", TRUE,
                                 IF And(ins, \hfe0f) = \h9005 THEN 1 ELSE 0, 0, FALSE)
       IN Reads(ESIL_A(c1,
            Cm(<<R(IF ins = \h95c8 THEN 0
                   ELSE Or(And(Shr(Byte(a, 0), 4), \hf), Shl(And(Byte(a, 1), 1), 4))), L("=")>>)), a, 2)

_inst__lsr(c, a) ==
  IF a.len < 2 THEN c
  ELSE LET d == Rd5(a)
       IN Reads(ESIL_A(c,
            Cm(<<R(d), Hx("0x1", 1), L("&"), L("cf"), L(":="),
                 D(1), R(d), L(">>="),
                 L("$z"), L("zf"), L(":="),
                 D(0), L("nf"), L(":="),
                 L("cf"), L("vf"), L(":="),
                 L("cf"), L("sf"), L(":=")>>)), a, 2)

_inst__mov(c, a) ==
  IF a.len < 2 THEN c
  ELSE Reads(ESIL_A(c, Cm(<<R(Rr5(a)), R(Rd5(a)), L("=")>>)), a, 2)

_inst__movw(c, a) ==
  IF a.len < 1 THEN c
  ELSE LET d == Shr(And(Byte(a, 0), \hf0), 3)
           r == Shl(And(Byte(a, 0), \h0f), 1)
       IN Reads(ESIL_A(c, Cm(<<R(r), R(d), L("="), R(r + 1), R(d + 1), L("=")>>)), a, 1)

_inst__mul(c, a) ==
  IF a.len < 2 THEN c
  ELSE Reads(ESIL_A(c,
         Cm(<<D(8), R(Rr5(a)), R(Rd5(a)), L("*"), L("DUP"), R(0), L("="), L(">>"), R(1), L("=")>>)
         \o MulFlags), a, 2)

_inst__muls(c, a) ==
  IF a.len < 1 THEN c
  ELSE LET d == And(Shr(Byte(a, 0), 4), \h0f) + 16
           r == And(Byte(a, 0), \h0f) + 16
       IN Reads(ESIL_A(c,
            Cm(<<D(8)>>) \o SignExtend(d) \o SignExtend(r)
            \o Cm(<<L("*"), L("DUP"), R(0), L("="), L(">>"), R(1), L("=")>>) \o MulFlags), a, 1)

_inst__mulsu(c, a) ==
  IF a.len < 1 THEN c
  ELSE LET d == And(Shr(Byte(a, 0), 4), \h07) + 16
           r == And(Byte(a, 0), \h07) + 16
       IN Reads(ESIL_A(c,
            Cm(<<D(8)>>) \o SignExtend(d)
            \o Cm(<<R(r), L("*"), L("DUP"), R(0), L("="), L(">>"), R(1), L("=")>>) \o MulFlags), a, 1)

_inst__neg(c, a) ==
  IF a.len < 2 THEN c
  ELSE LET d == Rd5(a)
       IN Reads(ESIL_A(c,
            Cm(<<R(d), Hx("0x00", 0), L("-"), Hx("0xff", 255), L("&"),
                 L("DUP"), R(d), Hx("0xff", 255), L("^"), L("|"), Hx("0x08", 8), L("&"),
                 L("!"), L("!"), L("hf"), L("="),
                 L("DUP"), Hx("0x80", 128), L("-"), L("!"), L("vf"), L("="),
                 L("DUP"), Hx("0x80", 128), L("&"), L("!"), L("!"), L("nf"), L("="),
                 L("DUP"), L("!"), L("zf"), L("="),
                 L("DUP"), L("!"), L("!"), L("cf"), L("="),
                 L("vf"), L("nf"), L("^"), L("sf"), L("="),
                 R(d), L("=")>>)), a, 2)

_inst__nop(c, a) == ESIL_A(c, <<Sep, Sep>>)

_inst__or(c, a) ==
  IF a.len < 2 THEN c
  ELSE LET d == Rd5(a)
           r == Rr5(a)
       IN Reads(ESIL_A(c,
            Cm(<<R(r), R(d), L("|="),
                 L("$z"), L("zf"), L(":="),
                 R(d), L("&"), L("!"), L("!"), L("nf"), L(":="),
                 D(0), L("vf"), L(":=")>>)
            \o Jn(<<L("nf"), L("sf"), L(":=")>>)), a, 2)

_inst__ori(c, a) ==
  IF a.len < 2 THEN c
  ELSE LET d == Rd16(a)
           k == Or(And(Byte(a, 0), \hf), Shl(And(Byte(a, 1), \hf), 4))
       IN Reads(ESIL_A([c EXCEPT !.op.val = k],
            Cm(<<D(k), R(d), L("|="),
                 L("$z"), L("zf"), L(":="),
                 R(d), Hx("0x80", 128), L("&"), L("!"), L("!"), L("nf"), L(":="),
                 D(0), L("vf"), L(":=")>>)
            \o Jn(<<L("nf"), L("sf"), L(":=")>>)), a, 2)

_inst__out(c, a) ==
  IF a.len < 2 THEN c
  ELSE LET r == Rd5(a)
           p == Or(And(Byte(a, 0), \h0f), Shl(And(Byte(a, 1), 6), 3))
           c1 == [c EXCEPT !.op.type2 = 1, !.op.val = p, !.op.mmio_address = p, !.op.family = "IO"]
       IN Reads(ESIL_A(c1, Cm(<<R(r)>>) \o __generic_io_dest(p, TRUE, a.cpu, a.inh) \o <<Sep>>), a, 2)

_inst__pop(c, a) ==
  IF a.len < 2 THEN c
  ELSE Reads(ESIL_A(__generic_pop(c, 1), Cm(<<R(Rd5(a)), L("=")>>)), a, 2)

_inst__push(c, a) ==
  IF a.len < 2 THEN c
  ELSE LET c1 == __generic_push(ESIL_A(c, Cm(<<R(Rd5(a))>>)), 1)
       IN Reads([c1 EXCEPT !.op.cycles = IF STR_BEGINS_ATxmega_is0(a.cpu) THEN 1 ELSE 2], a, 2)

_inst__rcall(c, a) ==
  IF a.len < 2 THEN c
  ELSE LET k == Shl(Or(Shl(And(Byte(a, 1), \hf), 8), Byte(a, 0)), 1)
           jump == c.op.addr + ((IF And(Byte(a, 1), 8) # 0 THEN OrNot(k, \h1fff) ELSE k) + 2)
           c1 == [c EXCEPT !.op.jump = jump, !.op.fail = c.op.addr + c.op.size]
           c2 == __generic_push(ESIL_A(c1, Cm(<<L("pc")>>)), CPU_PC_SIZE(a.cpu))
           c3 == ESIL_A(c2, Cm(<<Q(jump), L("pc"), L("=")>>))
           cyc == IF cpu_models[a.cpu].pc <= 16 THEN 3 ELSE 4
       IN Reads([c3 EXCEPT !.op.cycles = IF STR_BEGINS_ATxmega_is0(a.cpu) THEN cyc - 1 ELSE cyc], a, 2)

_inst__ret(c, a) ==
  LET c1 == __generic_pop([c EXCEPT !.op.eob = TRUE], CPU_PC_SIZE(a.cpu))
      c2 == ESIL_A(c1, Cm(<<L("pc"), L("=")>>))
  IN IF CPU_PC_SIZE(a.cpu) > 2 THEN [c2 EXCEPT !.op.cycles = @ + 1] ELSE c2

_inst__reti(c, a) ==
  ESIL_A(_inst__ret([c EXCEPT !.op.family = "PRIV"], a), Cm(<<D(1), L("if"), L("=")>>))

_inst__rjmp(c, a) ==
  LET k == Or(Shl(And(Byte(a, 1), \hf), 9), Shl(Byte(a, 0), 1))
      jump == (IF And(Byte(a, 1), 8) # 0 THEN OrNot(k, \h1fff) ELSE k) + 2
  IN Reads(ESIL_A([c EXCEPT !.op.jump = c.op.addr + jump],
                  Cm(<<Q(c.op.addr + jump), L("pc"), L("=")>>)), a, 2)

_inst__ror(c, a) ==
  LET d == Rd5(a)
  IN Reads(ESIL_A(c,
       Cm(<<L("cf"), L("nf"), L(":="),
            R(d), Hx("0x1", 1), L("&"),
            D(1), R(d), L(">>"), D(7), L("cf"), L("<<"), L("|"), R(d), L("="), L("cf"), L(":="),
            L("$z"), L("zf"), L(":="),
            L("nf"), L("cf"), L("^"), L("vf"), L(":=")>>) \o SignFlag), a, 2)

(* "0x80,r%d,&,!,!,nf,:=," *)
NegativeFlag(d) == Cm(<<Hx("0x80", 128), R(d), L("&"), L("!"), L("!"), L("nf"), L(":=")>>)

_inst__sbc(c, a) ==
  IF a.len < 2 THEN c
  ELSE LET r == Rr5(a)
           d == Rd5(a)
       IN Reads(ESIL_A(c, Cm(<<L("cf"), R(r), L("+"), R(d), L("-=")>>)
                          \o BorrowFlags \o NegativeFlag(d) \o SignFlag), a, 2)

_inst__sbci(c, a) ==
  IF a.len < 2 THEN c
  ELSE LET d == Rd16(a)
           k == K8(a)
       IN Reads(ESIL_A([c EXCEPT !.op.val = k], Cm(<<L("cf"), D(k), L("+"), R(d), L("-=")>>)
                          \o BorrowFlags \o NegativeFlag(d) \o SignFlag), a, 2)

_inst__sub(c, a) ==
  IF a.len < 2 THEN c
  ELSE LET d == Rd5(a)
           r == Rr5(a)
       IN Reads(ESIL_A(c, Cm(<<R(r), R(d), L("-=")>>)
                          \o BorrowFlags \o NegativeFlag(d) \o SignFlag), a, 2)

_inst__subi(c, a) ==
  IF a.len < 2 THEN c
  ELSE LET d == Rd16(a)
           k == K8(a)
       IN Reads(ESIL_A([c EXCEPT !.op.val = k], Cm(<<D(k), R(d), L("-=")>>)
                          \o BorrowFlags \o NegativeFlag(d) \o SignFlag), a, 2)

_inst__sbi(c, a) ==
  IF a.len < 1 THEN c
  ELSE LET p == And(Shr(Byte(a, 0), 3), \h1f)
           b == And(Byte(a, 0), 7)
           c1 == [c EXCEPT !.op.type2 = 1, !.op.val = p, !.op.family = "IO"]
           c2 == ESIL_A(c1, Cm(<<Hx("0xff", 255), D(b), D(1), L("<<"), L("|")>>)
                            \o __generic_io_dest(p, FALSE, a.cpu, a.inh) \o <<Sep, L("&"), Sep>>)
       IN Reads(ESIL_A(c2, __generic_io_dest(p, TRUE, a.cpu, a.inh) \o <<Sep>>), a, 1)

_inst__sbix(c, a) ==
  IF a.len < 2 THEN c
  ELSE LET p == And(Shr(Byte(a, 0), 3), \h1f)
           b == And(Byte(a, 0), 7)
           c1 == [c EXCEPT !.op.type2 = 0, !.op.val = p, !.op.family = "IO"]
       IN Reads(SkipOver(LookAhead(c1, a), c.op.addr + c.op.size,
            Cm(<<D(b), D(1), L("<<")>>) \o __generic_io_dest(p, FALSE, a.cpu, a.inh) \o <<Sep, L("&"), Sep>>
            \o (IF And(Byte(a, 1), \he) = \hc THEN Cm(<<L("!")>>) ELSE Cm(<<L("!"), L("!")>>))), a, 2)

_inst__sbiw(c, a) ==
  IF a.len < 1 THEN c
  ELSE LET d == Shr(And(Byte(a, 0), \h30), 3) + 24
           k == Or(And(Byte(a, 0), \hf), And(Shr(Byte(a, 0), 2), \h30))
       IN Reads(ESIL_A([c EXCEPT !.op.val = k],
            Cm(<<D(7), R(d + 1), L(">>"),
                 D(8), D(k), D(8), R(d + 1), L("<<"), R(d), L("|"), L("-"), L("DUP"),
                 R(d), L("="), L(">>"), R(d + 1), L("="),
                 L("$z"), L("zf"), L(":="),
                 L("DUP"), L("!"), D(7), R(d + 1), L(">>"), L("&"), L("cf"), L(":="),
                 R(d + 1), Hx("0x80", 128), L("&"), L("!"), L("!"), L("nf"), L(":="),
                 D(7), R(d + 1), L(">>"), L("!"), L("&"), L("vf"), L(":=")>>) \o SignFlag), a, 1)

_inst__sbrx(c, a) ==
  IF a.len < 2 THEN c
  ELSE LET b == And(Byte(a, 0), 7)
           r == Rd5(a)
       IN Reads(SkipOver(LookAhead(c, a), c.op.addr + 2,
            Cm(<<D(b), D(1), L("<<"), R(r), L("&")>>)
            \o (IF And(Byte(a, 1), \he) = \hc THEN Cm(<<L("!")>>) ELSE Cm(<<L("!"), L("!")>>))), a, 2)

_inst__sleep(c, a) == ESIL_A(c, <<L("BREAK")>>)

_inst__spm(c, a) ==
  LET spmcsr == a.regs.spmcsr
      c1 == ESIL_A(c, Cm(<<Hx("0x7c", 124), L("spmcsr"), L("&=")>>))
      sel == And(spmcsr, \h7f)
      c2 == CASE sel = 3 ->
                   ESIL_A(c1, Cm(<<D(16), L("rampz"), L("<<"), L("z"), L("+"), L("SPM_PAGE_ERASE")>>))
               [] sel = 1 ->
                   ESIL_A(c1, Cm(<<R(1), R(0), L("z"), L("SPM_PAGE_FILL")>>))
               [] sel = 5 ->
                   ESIL_A(c1, Cm(<<D(16), L("rampz"), L("<<"), L("z"), L("+"), L("SPM_PAGE_WRITE")>>))
               [] OTHER -> c1
  IN [c2 EXCEPT !.op.cycles = 1]

_inst__st(c, a) ==
  IF a.len < 2 THEN c
  ELSE LET low == And(Byte(a, 0), \hf)
           c1 == ESIL_A(c, Cm(<<R(Or(Shl(And(Byte(a, 1), 1), 4), And(Shr(Byte(a, 0), 4), \hf)))>>))
       IN Reads(__generic_ld_st(c1, "ram", "x", FALSE,
                                IF low = \he THEN -1 ELSE IF low = \hd THEN 1 ELSE 0, 0, TRUE), a, 2)

_inst__std(c, a) ==
  IF a.len < 2 THEN c
  ELSE LET plain == And(Byte(a, 1), \h10) = 0
           c1 == ESIL_A(c, Cm(<<R(Or(Shl(And(Byte(a, 1), 1), 4), And(Shr(Byte(a, 0), 4), \hf)))>>))
       IN Reads(__generic_ld_st(c1, "ram", IF And(Byte(a, 0), 8) # 0 THEN "y" ELSE "z", FALSE,
                                IF plain THEN 0 ELSE IF And(Byte(a, 0), 1) # 0 THEN 1 ELSE -1,
                                IF plain THEN Displacement(a) ELSE 0, TRUE), a, 2)

_inst__swap(c, a) ==
  IF a.len < 2 THEN c
  ELSE LET d == Rd5(a)
       IN Reads(ESIL_A(c,
            Cm(<<D(4), R(d), L(">>"), Hx("0x0f", 15), L("&"),
                 D(4), R(d), L("<<"), Hx("0xf0", 240), L("&"),
                 L("|"), R(d), L("=")>>)), a, 2)

-----------------------------------------------------------------------------
(* The descriptor table and the table engine.                              *)

opcodes_init ==
  <<
    [name |-> "break", mask |-> \hffff, selector |-> \h9698, handler |-> "break", cycles |-> 1, size |-> 2, type |-> "TRAP"],
    [name |-> "eicall", mask |-> \hffff, selector |-> \h9519, handler |-> "eicall", cycles |-> 0, size |-> 2, type |-> "UCALL"],
    [name |-> "eijmp", mask |-> \hffff, selector |-> \h9419, handler |-> "eijmp", cycles |-> 0, size |-> 2, type |-> "UJMP"],
    [name |-> "icall", mask |-> \hffff, selector |-> \h9509, handler |-> "icall", cycles |-> 0, size |-> 2, type |-> "UCALL"],
    [name |-> "ijmp", mask |-> \hffff, selector |-> \h9409, handler |-> "ijmp", cycles |-> 0, size |-> 2, type |-> "UJMP"],
    [name |-> "lpm", mask |-> \hffff, selector |-> \h95c8, handler |-> "lpm", cycles |-> 3, size |-> 2, type |-> "LOAD"],
    [name |-> "nop", mask |-> \hffff, selector |-> \h0000, handler |-> "nop", cycles |-> 1, size |-> 2, type |-> "NOP"],
    [name |-> "ret", mask |-> \hffff, selector |-> \h9508, handler |-> "ret", cycles |-> 4, size |-> 2, type |-> "RET"],
    [name |-> "reti", mask |-> \hffff, selector |-> \h9518, handler |-> "reti", cycles |-> 4, size |-> 2, type |-> "RET"],
    [name |-> "sleep", mask |-> \hffff, selector |-> \h9588, handler |-> "sleep", cycles |-> 1, size |-> 2, type |-> "NOP"],
    [name |-> "spm", mask |-> \hffff, selector |-> \h95e8, handler |-> "spm", cycles |-> 1, size |-> 2, type |-> "TRAP"],
    [name |-> "bclr", mask |-> \hff8f, selector |-> \h9488, handler |-> "bclr", cycles |-> 1, size |-> 2, type |-> "MOV"],
    [name |-> "bset", mask |-> \hff8f, selector |-> \h9408, handler |-> "bset", cycles |-> 1, size |-> 2, type |-> "MOV"],
    [name |-> "fmul", mask |-> \hff88, selector |-> \h0308, handler |-> "fmul", cycles |-> 2, size |-> 2, type |-> "MUL"],
    [name |-> "fmuls", mask |-> \hff88, selector |-> \h0380, handler |-> "fmuls", cycles |-> 2, size |-> 2, type |-> "MUL"],
    [name |-> "fmulsu", mask |-> \hff88, selector |-> \h0388, handler |-> "fmulsu", cycles |-> 2, size |-> 2, type |-> "MUL"],
    [name |-> "mulsu", mask |-> \hff88, selector |-> \h0300, handler |-> "mulsu", cycles |-> 2, size |-> 2, type |-> "AND"],
    [name |-> "des", mask |-> \hff0f, selector |-> \h940b, handler |-> "des", cycles |-> 0, size |-> 2, type |-> "CRYPTO"],
    [name |-> "adiw", mask |-> \hff00, selector |-> \h9600, handler |-> "adiw", cycles |-> 2, size |-> 2, type |-> "ADD"],
    [name |-> "sbiw", mask |-> \hff00, selector |-> \h9700, handler |-> "sbiw", cycles |-> 2, size |-> 2, type |-> "SUB"],
    [name |-> "cbi", mask |-> \hff00, selector |-> \h9800, handler |-> "cbi", cycles |-> 1, size |-> 2, type |-> "IO"],
    [name |-> "sbi", mask |-> \hff00, selector |-> \h9a00, handler |-> "sbi", cycles |-> 1, size |-> 2, type |-> "IO"],
    [name |-> "movw", mask |-> \hff00, selector |-> \h0100, handler |-> "movw", cycles |-> 1, size |-> 2, type |-> "MOV"],
    [name |-> "muls", mask |-> \hff00, selector |-> \h0200, handler |-> "muls", cycles |-> 2, size |-> 2, type |-> "AND"],
    [name |-> "asr", mask |-> \hfe0f, selector |-> \h9405, handler |-> "asr", cycles |-> 1, size |-> 2, type |-> "SAR"],
    [name |-> "com", mask |-> \hfe0f, selector |-> \h9400, handler |-> "com", cycles |-> 1, size |-> 2, type |-> "NOT"],
    [name |-> "dec", mask |-> \hfe0f, selector |-> \h940a, handler |-> "dec", cycles |-> 1, size |-> 2, type |-> "SUB"],
    [name |-> "elpm", mask |-> \hfe0f, selector |-> \h9006, handler |-> "elpm", cycles |-> 0, size |-> 2, type |-> "LOAD"],
    [name |-> "elpm", mask |-> \hfe0f, selector |-> \h9007, handler |-> "elpm", cycles |-> 0, size |-> 2, type |-> "LOAD"],
    [name |-> "inc", mask |-> \hfe0f, selector |-> \h9403, handler |-> "inc", cycles |-> 1, size |-> 2, type |-> "ADD"],
    [name |-> "lac", mask |-> \hfe0f, selector |-> \h9206, handler |-> "lac", cycles |-> 2, size |-> 2, type |-> "LOAD"],
    [name |-> "las", mask |-> \hfe0f, selector |-> \h9205, handler |-> "las", cycles |-> 2, size |-> 2, type |-> "LOAD"],
    [name |-> "lat", mask |-> \hfe0f, selector |-> \h9207, handler |-> "lat", cycles |-> 2, size |-> 2, type |-> "LOAD"],
    [name |-> "ld", mask |-> \hfe0f, selector |-> \h900c, handler |-> "ld", cycles |-> 0, size |-> 2, type |-> "LOAD"],
    [name |-> "ld", mask |-> \hfe0f, selector |-> \h900d, handler |-> "ld", cycles |-> 0, size |-> 2, type |-> "LOAD"],
    [name |-> "ld", mask |-> \hfe0f, selector |-> \h900e, handler |-> "ld", cycles |-> 0, size |-> 2, type |-> "LOAD"],
    [name |-> "lds", mask |-> \hfe0f, selector |-> \h9000, handler |-> "lds", cycles |-> 0, size |-> 4, type |-> "LOAD"],
    [name |-> "sts", mask |-> \hfe0f, selector |-> \h9200, handler |-> "sts", cycles |-> 2, size |-> 4, type |-> "STORE"],
    [name |-> "lpm", mask |-> \hfe0f, selector |-> \h9004, handler |-> "lpm", cycles |-> 3, size |-> 2, type |-> "LOAD"],
    [name |-> "lpm", mask |-> \hfe0f, selector |-> \h9005, handler |-> "lpm", cycles |-> 3, size |-> 2, type |-> "LOAD"],
    [name |-> "lsr", mask |-> \hfe0f, selector |-> \h9406, handler |-> "lsr", cycles |-> 1, size |-> 2, type |-> "SHR"],
    [name |-> "neg", mask |-> \hfe0f, selector |-> \h9401, handler |-> "neg", cycles |-> 2, size |-> 2, type |-> "SUB"],
    [name |-> "pop", mask |-> \hfe0f, selector |-> \h900f, handler |-> "pop", cycles |-> 2, size |-> 2, type |-> "POP"],
    [name |-> "push", mask |-> \hfe0f, selector |-> \h920f, handler |-> "push", cycles |-> 0, size |-> 2, type |-> "PUSH"],
    [name |-> "ror", mask |-> \hfe0f, selector |-> \h9407, handler |-> "ror", cycles |-> 1, size |-> 2, type |-> "SAR"],
    [name |-> "st", mask |-> \hfe0f, selector |-> \h920c, handler |-> "st", cycles |-> 2, size |-> 2, type |-> "STORE"],
    [name |-> "st", mask |-> \hfe0f, selector |-> \h920d, handler |-> "st", cycles |-> 0, size |-> 2, type |-> "STORE"],
    [name |-> "st", mask |-> \hfe0f, selector |-> \h920e, handler |-> "st", cycles |-> 0, size |-> 2, type |-> "STORE"],
    [name |-> "swap", mask |-> \hfe0f, selector |-> \h9402, handler |-> "swap", cycles |-> 1, size |-> 2, type |-> "SAR"],
    [name |-> "call", mask |-> \hfe0e, selector |-> \h940e, handler |-> "call", cycles |-> 0, size |-> 4, type |-> "CALL"],
    [name |-> "jmp", mask |-> \hfe0e, selector |-> \h940c, handler |-> "jmp", cycles |-> 2, size |-> 4, type |-> "JMP"],
    [name |-> "bld", mask |-> \hfe08, selector |-> \hf800, handler |-> "bld", cycles |-> 1, size |-> 2, type |-> "MOV"],
    [name |-> "bst", mask |-> \hfe08, selector |-> \hfa00, handler |-> "bst", cycles |-> 1, size |-> 2, type |-> "MOV"],
    [name |-> "sbix", mask |-> \hff00, selector |-> \h9900, handler |-> "sbix", cycles |-> 2, size |-> 2, type |-> "CJMP"],
    [name |-> "sbix", mask |-> \hff00, selector |-> \h9b00, handler |-> "sbix", cycles |-> 2, size |-> 2, type |-> "CJMP"],
    [name |-> "sbrx", mask |-> \hfe08, selector |-> \hfc00, handler |-> "sbrx", cycles |-> 2, size |-> 2, type |-> "CJMP"],
    [name |-> "sbrx", mask |-> \hfe08, selector |-> \hfe00, handler |-> "sbrx", cycles |-> 2, size |-> 2, type |-> "CJMP"],
    [name |-> "ldd", mask |-> \hfe07, selector |-> \h9001, handler |-> "ldd", cycles |-> 0, size |-> 2, type |-> "LOAD"],
    [name |-> "ldd", mask |-> \hfe07, selector |-> \h9002, handler |-> "ldd", cycles |-> 0, size |-> 2, type |-> "LOAD"],
    [name |-> "std", mask |-> \hfe07, selector |-> \h9201, handler |-> "std", cycles |-> 0, size |-> 2, type |-> "STORE"],
    [name |-> "std", mask |-> \hfe07, selector |-> \h9202, handler |-> "std", cycles |-> 0, size |-> 2, type |-> "STORE"],
    [name |-> "adc", mask |-> \hfc00, selector |-> \h1c00, handler |-> "adc", cycles |-> 1, size |-> 2, type |-> "ADD"],
    [name |-> "add", mask |-> \hfc00, selector |-> \h0c00, handler |-> "add", cycles |-> 1, size |-> 2, type |-> "ADD"],
    [name |-> "and", mask |-> \hfc00, selector |-> \h2000, handler |-> "and", cycles |-> 1, size |-> 2, type |-> "AND"],
    [name |-> "brbx", mask |-> \hfc00, selector |-> \hf000, handler |-> "brbx", cycles |-> 0, size |-> 2, type |-> "CJMP"],
    [name |-> "brbx", mask |-> \hfc00, selector |-> \hf400, handler |-> "brbx", cycles |-> 0, size |-> 2, type |-> "CJMP"],
    [name |-> "cp", mask |-> \hfc00, selector |-> \h1400, handler |-> "cp", cycles |-> 1, size |-> 2, type |-> "CMP"],
    [name |-> "cpc", mask |-> \hfc00, selector |-> \h0400, handler |-> "cpc", cycles |-> 1, size |-> 2, type |-> "CMP"],
    [name |-> "cpse", mask |-> \hfc00, selector |-> \h1000, handler |-> "cpse", cycles |-> 0, size |-> 2, type |-> "CJMP"],
    [name |-> "eor", mask |-> \hfc00, selector |-> \h2400, handler |-> "eor", cycles |-> 1, size |-> 2, type |-> "XOR"],
    [name |-> "mov", mask |-> \hfc00, selector |-> \h2c00, handler |-> "mov", cycles |-> 1, size |-> 2, type |-> "MOV"],
    [name |-> "mul", mask |-> \hfc00, selector |-> \h9c00, handler |-> "mul", cycles |-> 2, size |-> 2, type |-> "AND"],
    [name |-> "or", mask |-> \hfc00, selector |-> \h2800, handler |-> "or", cycles |-> 1, size |-> 2, type |-> "OR"],
    [name |-> "sbc", mask |-> \hfc00, selector |-> \h0800, handler |-> "sbc", cycles |-> 1, size |-> 2, type |-> "SUB"],
    [name |-> "sub", mask |-> \hfc00, selector |-> \h1800, handler |-> "sub", cycles |-> 1, size |-> 2, type |-> "SUB"],
    [name |-> "in", mask |-> \hf800, selector |-> \hb000, handler |-> "in", cycles |-> 1, size |-> 2, type |-> "IO"],
    [name |-> "out", mask |-> \hf800, selector |-> \hb800, handler |-> "out", cycles |-> 1, size |-> 2, type |-> "IO"],
    [name |-> "andi", mask |-> \hf000, selector |-> \h7000, handler |-> "andi", cycles |-> 1, size |-> 2, type |-> "AND"],
    [name |-> "cpi", mask |-> \hf000, selector |-> \h3000, handler |-> "cpi", cycles |-> 1, size |-> 2, type |-> "CMP"],
    [name |-> "ldi", mask |-> \hf000, selector |-> \he000, handler |-> "ldi", cycles |-> 1, size |-> 2, type |-> "LOAD"],
    [name |-> "ori", mask |-> \hf000, selector |-> \h6000, handler |-> "ori", cycles |-> 1, size |-> 2, type |-> "OR"],
    [name |-> "rcall", mask |-> \hf000, selector |-> \hd000, handler |-> "rcall", cycles |-> 0, size |-> 2, type |-> "CALL"],
    [name |-> "rjmp", mask |-> \hf000, selector |-> \hc000, handler |-> "rjmp", cycles |-> 2, size |-> 2, type |-> "JMP"],
    [name |-> "sbci", mask |-> \hf000, selector |-> \h4000, handler |-> "sbci", cycles |-> 1, size |-> 2, type |-> "SUB"],
    [name |-> "subi", mask |-> \hf000, selector |-> \h5000, handler |-> "subi", cycles |-> 1, size |-> 2, type |-> "SUB"],
    [name |-> "ldd", mask |-> \hd200, selector |-> \h8000, handler |-> "ldd", cycles |-> 0, size |-> 2, type |-> "LOAD"],
    [name |-> "std", mask |-> \hd200, selector |-> \h8200, handler |-> "std", cycles |-> 0, size |-> 2, type |-> "STORE"],
    [name |-> "unknown", mask |-> 0, selector |-> 0, handler |-> "NULL", cycles |-> 2, size |-> 1, type |-> "UNK"]
  >>

(* opcode_desc->handler(analysis, op, buf, len, &fail, cpu) *)
handler(h, c, a) ==
    CASE h = "adc" -> _inst__adc(c, a)
      [] h = "add" -> _inst__add(c, a)
      [] h = "adiw" -> _inst__adiw(c, a)
      [] h = "and" -> _inst__and(c, a)
      [] h = "andi" -> _inst__andi(c, a)
      [] h = "asr" -> _inst__asr(c, a)
      [] h = "bclr" -> _inst__bclr(c, a)
      [] h = "bld" -> _inst__bld(c, a)
      [] h = "brbx" -> _inst__brbx(c, a)
      [] h = "break" -> _inst__break(c, a)
      [] h = "bset" -> _inst__bset(c, a)
      [] h = "bst" -> _inst__bst(c, a)
      [] h = "call" -> _inst__call(c, a)
      [] h = "cbi" -> _inst__cbi(c, a)
      [] h = "com" -> _inst__com(c, a)
      [] h = "cp" -> _inst__cp(c, a)
      [] h = "cpc" -> _inst__cpc(c, a)
      [] h = "cpi" -> _inst__cpi(c, a)
      [] h = "cpse" -> _inst__cpse(c, a)
      [] h = "dec" -> _inst__dec(c, a)
      [] h = "des" -> _inst__des(c, a)
      [] h = "eicall" -> _inst__eicall(c, a)
      [] h = "eijmp" -> _inst__eijmp(c, a)
      [] h = "elpm" -> _inst__elpm(c, a)
      [] h = "eor" -> _inst__eor(c, a)
      [] h = "fmul" -> _inst__fmul(c, a)
      [] h = "fmuls" -> _inst__fmuls(c, a)
      [] h = "fmulsu" -> _inst__fmulsu(c, a)
      [] h = "icall" -> _inst__icall(c, a)
      [] h = "ijmp" -> _inst__ijmp(c, a)
      [] h = "in" -> _inst__in(c, a)
      [] h = "inc" -> _inst__inc(c, a)
      [] h = "jmp" -> _inst__jmp(c, a)
      [] h = "lac" -> _inst__lac(c, a)
      [] h = "las" -> _inst__las(c, a)
      [] h = "lat" -> _inst__lat(c, a)
      [] h = "ld" -> _inst__ld(c, a)
      [] h = "ldd" -> _inst__ldd(c, a)
      [] h = "ldi" -> _inst__ldi(c, a)
      [] h = "lds" -> _inst__lds(c, a)
      [] h = "lpm" -> _inst__lpm(c, a)
      [] h = "lsr" -> _inst__lsr(c, a)
      [] h = "mov" -> _inst__mov(c, a)
      [] h = "movw" -> _inst__movw(c, a)
      [] h = "mul" -> _inst__mul(c, a)
      [] h = "muls" -> _inst__muls(c, a)
      [] h = "mulsu" -> _inst__mulsu(c, a)
      [] h = "neg" -> _inst__neg(c, a)
      [] h = "nop" -> _inst__nop(c, a)
      [] h = "or" -> _inst__or(c, a)
      [] h = "ori" -> _inst__ori(c, a)
      [] h = "out" -> _inst__out(c, a)
      [] h = "pop" -> _inst__pop(c, a)
      [] h = "push" -> _inst__push(c, a)
      [] h = "rcall" -> _inst__rcall(c, a)
      [] h = "ret" -> _inst__ret(c, a)
      [] h = "reti" -> _inst__reti(c, a)
      [] h = "rjmp" -> _inst__rjmp(c, a)
      [] h = "ror" -> _inst__ror(c, a)
      [] h = "sbc" -> _inst__sbc(c, a)
      [] h = "sbci" -> _inst__sbci(c, a)
      [] h = "sbi" -> _inst__sbi(c, a)
      [] h = "sbiw" -> _inst__sbiw(c, a)
      [] h = "sbix" -> _inst__sbix(c, a)
      [] h = "sbrx" -> _inst__sbrx(c, a)
      [] h = "sleep" -> _inst__sleep(c, a)
      [] h = "spm" -> _inst__spm(c, a)
      [] h = "st" -> _inst__st(c, a)
      [] h = "std" -> _inst__std(c, a)
      [] h = "sts" -> _inst__sts(c, a)
      [] h = "sub" -> _inst__sub(c, a)
      [] h = "subi" -> _inst__subi(c, a)
      [] h = "swap" -> _inst__swap(c, a)

(* set_invalid_op without the assignment of op->size *)
set_invalid_op_keeps_size(o, addr) ==
  [o EXCEPT !.family = "UNKNOWN", !.type = "UNK", !.addr = addr, !.nopcode = 1,
            !.cycles = 1, !.esil = Jn(<<D(1), L("$")>>)]

set_invalid_op(o, addr) ==
  [o EXCEPT !.family = "UNKNOWN", !.type = "UNK", !.addr = addr, !.nopcode = 1,
            !.cycles = 1, !.size = 2, !.esil = Jn(<<D(1), L("$")>>)]

(* (ins & opcode_desc->mask) == opcode_desc->selector *)
Matches(ins, desc) == And(ins, desc.mask) = desc.selector

(* the scan taking the last descriptor that matches instead of the first *)
ScanFrom_last(tab, ins, i) ==
  LET S == {k \in i..(Len(tab) - 1) : Matches(ins, tab[k])}
  IN IF S = {} THEN 0 ELSE CHOOSE k \in S : \A j \in S : j <= k

(* the for loop of avr_op_analyze: the index of the first descriptor from i *)
(* on that has a handler and matches, or 0 once the handler is NULL         *)
RECURSIVE ScanFrom(_, _, _)
ScanFrom(tab, ins, i) ==
  IF tab[i].handler = "NULL" THEN 0
  ELSE IF Matches(ins, tab[i]) THEN i
  ELSE ScanFrom(tab, ins, i + 1)

(* remove trailing coma *)
TrimComma(t) ==
  IF Len(t) > 1 /\ t[Len(t)] = Sep THEN SubSeq(t, 1, Len(t) - 1) ELSE t

(* the context of a call of avr_op_analyze once it is entered *)
Entered(c, a) ==
  [c EXCEPT !.depth = IF a.level > @ THEN a.level ELSE @, !.calls = @ + 1]

(* Defaults without the copy of the descriptor's type *)
Defaults_keeps_type(c, i, addr) ==
  [c EXCEPT !.fail = 0, !.op.cycles = c.tab[i].cycles, !.op.size = c.tab[i].size,
            !.op.jump = UT64_MAX, !.op.fail = UT64_MAX, !.op.addr = addr, !.op.esil = <<>>]

(* copy default cycles/size values, start void esil expression *)
Defaults(c, i, addr) ==
  [c EXCEPT !.fail = 0, !.op.cycles = c.tab[i].cycles, !.op.size = c.tab[i].size,
            !.op.type = c.tab[i].type, !.op.jump = UT64_MAX, !.op.fail = UT64_MAX,
            !.op.addr = addr, !.op.esil = <<>>]

(* INVALID_OP: *)
Invalid(c, addr) == [c |-> [c EXCEPT !.op = set_invalid_op(@, addr)], desc |-> 0]

(* what avr_op_analyze does once the handler of opcodes[i] has returned c  *)
Handled(c, i, addr) ==
  IF c.fail # 0 THEN Invalid(c, addr)
  ELSE [c |-> [c EXCEPT !.tab[i].cycles = IF c.op.cycles <= 0 THEN 2 ELSE @,
                        !.op.nopcode = IF c.op.type = "UNK" THEN 1 ELSE 0,
                        !.op.esil = TrimComma(@)],
        desc |-> i]

(* the body of avr_op_analyze's loop for the descriptor i the scan stops at *)
Dispatch(c, addr, a, i) ==
  IF i = 0 THEN Invalid(c, addr)
  ELSE Handled(handler(c.tab[i].handler, Defaults(c, i, addr), a), i, addr)

(* avr_op_analyze that returns early only from an empty buffer *)
avr_op_analyze_from_one_byte(c, addr, a) ==
  IF a.len < 1 THEN [c |-> Entered(c, a), desc |-> 0]
  ELSE Dispatch(Reads(Entered(c, a), a, 2), addr, a,
                ScanFrom(c.tab, Or(Shl(Byte(a, 1), 8), Byte(a, 0)), 1))

(* Gives [c, desc]: the context afterwards (c.op is *op) and the index of  *)
(* the descriptor returned, 0 for NULL.                                    *)
avr_op_analyze(c, addr, a) ==
  IF a.len < 2 THEN [c |-> Entered(c, a), desc |-> 0]
  ELSE Dispatch(Reads(Entered(c, a), a, 2), addr, a,
                ScanFrom(c.tab, Or(Shl(Byte(a, 1), 8), Byte(a, 0)), 1))

-----------------------------------------------------------------------------
(* The plugin entry avr_op and the callers.                                *)

(* how many 16-bit words the caller's buffer holds *)
MaxWords == 3

(* the bytes of a buffer of words, low byte first *)
Bytes(ws) ==
  [i \in 1..(2 * Len(ws)) |->
     IF i % 2 = 1 THEN ws[(i + 1) \div 2] % 256 ELSE ws[i \div 2] \div 256]

(* the buffer that starts with w1, w2 and goes on with w3 *)
Buf(w1, w2, w3) ==
  [i \in 1..MaxWords |-> IF i = 1 THEN w1 ELSE IF i = 2 THEN w2 ELSE w3]

(* the context an outermost avr_op_analyze starts from *)
Context(o, tab) ==
  [op |-> o, tab |-> tab, fail |-> 0, next_op |-> <<>>, reads |-> {}, depth |-> 0, calls |-> 0]

(* the buf, len and cpu arguments of an outermost call, with the registers *)
(* rz_analysis_esil_reg_read fills the handler's locals from: the          *)
(* interpreter's when analysis->esil is set, else what the locals held     *)
Args(cl, m, regs) ==
  [buf |-> Bytes(cl.buf), off |-> 0, len |-> cl.len, cpu |-> m.cpu, inh |-> m.inh,
   regs |-> IF cl.esil THEN regs ELSE cl.stack, level |-> 0]

(* set memory layout registers *)
LayoutRegs(regs, profile) ==
  LET io == Shl(1, profile.pc)
      sram == io + profile.sram_start
      eeprom == sram + profile.sram_size
  IN [regs EXCEPT !._prog = 0, !._io = io, !._sram = sram, !._eeprom = eeprom,
                  !._page = eeprom + profile.eeprom_size]

(* the state after a call: the record, the value returned, the descriptor *)
(* the engine returned and what the call left in the statics               *)
Outcome(n, o, r, m, regs) ==
  [op |-> o, ret |-> r, desc |-> n.desc, c |-> n.c, cache |-> m.cache, inh |-> m.inh,
   regs |-> regs]

(* avr_op from the call of avr_op_analyze on: op->size = size; return size *)
Sized(n, size, m, regs) == Outcome(n, [n.c.op EXCEPT !.size = size], size, m, regs)

(* avr_op once the disassembler has left a mnemonic other than "invalid" *)
Analyzed(cl, o, tab, m, regs) ==
  Sized(avr_op_analyze(Context(o, tab), cl.addr, Args(cl, m, regs)), cl.dis.size, m, regs)

(* Gives the state after avr_op(analysis, op, addr, buf, len, mask).       *)
avr_op(cl, o, tab, cache, inh, regs) ==
  LET mnemonic == IF cl.len > 1 THEN cl.dis.mnemonic ELSE "invalid"
      o1 == [set_invalid_op(o, cl.addr) EXCEPT !.mnemonic = mnemonic]
  IN IF mnemonic = "invalid"
     THEN Outcome([c |-> Context(o1, tab), desc |-> 0], [o1 EXCEPT !.eob = TRUE], -1,
                  [cache |-> cache, inh |-> inh], regs)
     ELSE Analyzed(cl, o1, tab, get_cpu_model(cl.cpu, cache, inh),
                   IF cl.esil THEN LayoutRegs(regs, cl.profile) ELSE regs)

(* the engine's call returns into a caller that keeps the record as it is *)
Kept(n, m, regs) == Outcome(n, n.c.op, 0, m, regs)

(* A caller that has looked the model up calls the engine on its record,   *)
(* as analysis_mask_avr does for each instruction.                         *)
Engine(cl, o, tab, m, regs) ==
  Kept(avr_op_analyze(Context(o, tab), cl.addr, Args(cl, m, regs)), m, regs)

engine_call(cl, o, tab, cache, inh, regs) ==
  Engine(cl, o, tab, get_cpu_model(cl.cpu, cache, inh), regs)

-----------------------------------------------------------------------------
(* The inputs.                                                             *)

(* what avr_disassembler left: a size and a mnemonic, "invalid" included *)
Dis(size, mnemonic) == [size |-> size, mnemonic |-> mnemonic]

DisResults == {Dis(2, "ins"), Dis(4, "ins"), Dis(-1, "invalid")}

(* analysis->arch_target->profile *)
Profiles == {[pc |-> 13, sram_start |-> 96, sram_size |-> 1024, eeprom_size |-> 512]}

(* values of spmcsr, z and eind *)
Live(spmcsr, z, eind) == [spmcsr |-> spmcsr, z |-> z, eind |-> eind]

Regs0 ==
  [spmcsr |-> 0, z |-> 0, eind |-> 0, _prog |-> 0, _io |-> 0, _sram |-> 0, _eeprom |-> 0,
   _page |-> 0]

WithLive(regs, l) == [regs EXCEPT !.spmcsr = l.spmcsr, !.z = l.z, !.eind = l.eind]

LiveRegs ==
  {Live(0, 0, 0), Live(3, \h1234, 0), Live(1, \h1234, 1), Live(5, 0, 1), Live(\h83, \h40, 0)}

NoCall ==
  [entry |-> "none", buf |-> Buf(0, 0, 0), len |-> 0, addr |-> 0, cpu |-> "avr",
   dis |-> Dis(-1, "invalid"), rec |-> ZeroOp, esil |-> TRUE, stack |-> Live(0, 0, 0),
   profile |-> CHOOSE p \in Profiles : TRUE]

(* the calls of one entry over the given buffers, lengths and models *)
CallsOf(entry, bufs, lens, cpus, dises, recs) ==
  {[NoCall EXCEPT !.entry = entry, !.buf = b, !.len = n, !.addr = \h200, !.cpu = m,
                  !.dis = d, !.rec = r] :
     b \in bufs, n \in lens, m \in cpus, d \in dises, r \in recs}

Lens == 0..(2 * MaxWords)

(* words that read a register of the interpreter: spm, ijmp, eijmp, icall, eicall *)
RegWords == {\h95e8, \h9409, \h9419, \h9509, \h9519}

(* skip instructions: cpse, sbic, sbis, sbrc, sbrs *)
SkipWords == {\h1000, \h9900, \h9b0f, \hfc00, \hfe07}

(* words no descriptor matches *)
UnmatchedWords == {\h0001, \h9404, \hffff}

(* The calls of the stateful specification: few enough for the statics to  *)
(* be explored in every combination.                                       *)
Inputs ==
  CallsOf("avr_op", {Buf(w, 0, 0) : w \in {\h0000, \h9006, \h940e, \h95e8, \h9409, \h0001}},
          {1, 2, 4}, {"ATmega8", "ATmega88"}, DisResults, {InitOp})
  \cup CallsOf("avr_op_analyze", {Buf(w, 0, 0) : w \in {\h0000, \h9006, \h940e, \h9419, \h0001}},
               {0, 2, 4}, {"ATmega8"}, {Dis(-1, "invalid")}, {ZeroOp, InitOp})
  \cup CallsOf("avr_op_analyze", {Buf(\h1000, w, \h1000) : w \in {\h0000, \h940e, \h1000, \h9006}},
               Lens, {"ATmega8"}, {Dis(-1, "invalid")}, {ZeroOp})
  \cup {[i EXCEPT !.esil = FALSE, !.stack = l] :
          i \in CallsOf("avr_op", {Buf(\h9409, 0, 0)}, {2}, {"ATmega8"}, {Dis(2, "ins")}, {InitOp}),
          l \in {Live(0, 0, 0), Live(3, \h1234, 0)}}

(* operand patterns laid over the bits a descriptor's mask leaves free *)
Patterns == {\h0000, \hffff, \h5a5a, \ha5a5}

(* for every descriptor, its selector with each operand pattern *)
OperandWords ==
  {Or(opcodes_init[i].selector, And(p, \hffff - opcodes_init[i].mask)) :
     i \in 1..(Len(opcodes_init) - 1), p \in Patterns}

(* what follows a skip instruction: nop, call, jmp, lds, sts, cpse, sbrs,  *)
(* elpm, spm, ijmp and two unmatched words                                 *)
FollowWords ==
  {\h0000, \h940e, \h940c, \h9000, \h9200, \h1000, \hfe00, \h9006, \h95e8, \h9409,
   \h0001, \hffff}

(* instructions that push or pop the program counter, and jmp *)
PcWords == {\h940e, \h95ff, \hd000, \hdfff, \h9509, \h9519, \h940c, \h9508, \h9518}

(* analysis->cpu: every model of cpu_models, two spellings in another case *)
(* and a name cpu_models does not hold                                     *)
CpuNames == DOMAIN LowerCase

(* The calls of the table specification: every descriptor under several    *)
(* operands, every skip instruction before every kind of follower at every *)
(* length, and the stack instructions under every model.                   *)
TableInputs ==
  CallsOf("avr_op", {Buf(w, \h1234, 0) : w \in OperandWords \cup UnmatchedWords},
          {1, 2, 3, 4}, {"ATmega8"}, DisResults, {InitOp})
  \cup CallsOf("avr_op_analyze", {Buf(w, \h1234, 0) : w \in OperandWords \cup UnmatchedWords},
               {0, 1, 2, 3, 4}, {"ATmega8"}, {Dis(-1, "invalid")}, {ZeroOp, InitOp})
  \cup CallsOf("avr_op", {Buf(s, w, x) : s \in SkipWords, w \in FollowWords, x \in {\h0000, \h1000}},
               Lens, {"ATmega8"}, {Dis(2, "ins")}, {InitOp})
  \cup CallsOf("avr_op_analyze",
               {Buf(s, w, x) : s \in SkipWords, w \in FollowWords, x \in {\h0000, \h1000}},
               Lens, {"ATmega8"}, {Dis(-1, "invalid")}, {ZeroOp})
  \cup CallsOf("avr_op", {Buf(w, \h1234, 0) : w \in PcWords}, {2, 4}, CpuNames,
               {Dis(2, "ins"), Dis(4, "ins")}, {InitOp})
  \cup CallsOf("avr_op_analyze", {Buf(w, \h1234, 0) : w \in PcWords}, {2, 4}, CpuNames,
               {Dis(-1, "invalid")}, {ZeroOp})
  \cup {[i EXCEPT !.esil = FALSE, !.stack = l] :
          i \in CallsOf("avr_op", {Buf(w, 0, 0) : w \in RegWords}, {2}, {"ATmega8"},
                        {Dis(2, "ins")}, {InitOp}),
          l \in LiveRegs}

-----------------------------------------------------------------------------
(* The state machine.                                                      *)

NoPrev == [some |-> FALSE, op |-> ZeroOp, ret |-> 0, desc |-> 0]

(* no lookup made, no program run, no instruction lifted *)
NoLookup == [kind |-> "none"]

NoRun == [kind |-> "none"]

NoIl == [kind |-> "none"]

NoMask == [kind |-> "none"]

Init ==
  /\ pc_ = "idle"
  /\ opcodes = opcodes_init
  /\ cpu_cache = 0
  /\ inherit_cpu_p = [i \in 1..Len(cpu_models) |-> 0]
  /\ esil_regs = Regs0
  /\ call_ = NoCall
  /\ op = ZeroOp
  /\ ret = 0
  /\ opcode_desc = 0
  /\ next_op = <<>>
  /\ reads = {}
  /\ depth = 0
  /\ calls = 0
  /\ prev = NoPrev
  /\ lookup = NoLookup
  /\ esil_run = NoRun
  /\ arm_il = NoIl /\ mask = NoMask

(* a caller prepares a record and a buffer *)
Call ==
  /\ pc_ = "idle"
  /\ \E i \in Inputs :
       /\ call_' = i
       /\ op' = i.rec
  /\ pc_' = "called"
  /\ UNCHANGED others
  /\ UNCHANGED <<opcodes, cpu_cache, inherit_cpu_p, esil_regs, ret, opcode_desc, next_op, reads,
                 depth, calls, prev>>

(* the effect of a finished call r on the state *)
Finish(r) ==
  /\ op' = r.op
  /\ ret' = r.ret
  /\ opcode_desc' = r.desc
  /\ next_op' = r.c.next_op
  /\ reads' = r.c.reads
  /\ depth' = r.c.depth
  /\ calls' = r.c.calls
  /\ opcodes' = r.c.tab
  /\ cpu_cache' = r.cache
  /\ inherit_cpu_p' = r.inh
  /\ esil_regs' = r.regs
  /\ pc_' = "done"
  /\ UNCHANGED others
  /\ UNCHANGED <<call_, prev>>

RunAvrOp ==
  /\ pc_ = "called"
  /\ call_.entry = "avr_op"
  /\ Finish(avr_op(call_, op, opcodes, cpu_cache, inherit_cpu_p, esil_regs))

RunAnalyze ==
  /\ pc_ = "called"
  /\ call_.entry = "avr_op_analyze"
  /\ Finish(engine_call(call_, op, opcodes, cpu_cache, inherit_cpu_p, esil_regs))

(* the caller is done with the record *)
Return ==
  /\ pc_ = "done"
  /\ pc_' = "idle"
  /\ call_' = NoCall
  /\ op' = ZeroOp
  /\ ret' = 0
  /\ opcode_desc' = 0
  /\ next_op' = <<>>
  /\ reads' = {}
  /\ depth' = 0
  /\ calls' = 0
  /\ prev' = NoPrev
  /\ UNCHANGED others
  /\ UNCHANGED <<opcodes, cpu_cache, inherit_cpu_p, esil_regs>>

(* the caller decodes the same bytes at the same address once more *)
Recall ==
  /\ pc_ = "done"
  /\ ~prev.some
  /\ prev' = [some |-> TRUE, op |-> op, ret |-> ret, desc |-> opcode_desc]
  /\ op' = call_.rec
  /\ ret' = 0
  /\ opcode_desc' = 0
  /\ next_op' = <<>>
  /\ reads' = {}
  /\ depth' = 0
  /\ calls' = 0
  /\ pc_' = "called"
  /\ UNCHANGED others
  /\ UNCHANGED <<opcodes, cpu_cache, inherit_cpu_p, esil_regs, call_>>

(* the interpreter runs between two decodes and changes spmcsr, z and eind *)
EsilWrite ==
  /\ pc_ = "idle"
  /\ \E l \in LiveRegs :
       /\ WithLive(esil_regs, l) # esil_regs
       /\ esil_regs' = WithLive(esil_regs, l)
  /\ UNCHANGED others
  /\ UNCHANGED <<pc_, opcodes, cpu_cache, inherit_cpu_p, call_, op, ret, opcode_desc, next_op,
                 reads, depth, calls, prev>>

Next == Call \/ RunAvrOp \/ RunAnalyze \/ Return \/ Recall \/ EsilWrite

Spec == Init /\ [][Next]_vars

(* The table specification: one call from the initial statics, over the    *)
(* wide inputs and every value of the registers a handler reads.           *)
InitTable ==
  /\ pc_ = "called"
  /\ opcodes = opcodes_init
  /\ cpu_cache = 0
  /\ inherit_cpu_p = [i \in 1..Len(cpu_models) |-> 0]
  /\ call_ \in TableInputs
  /\ esil_regs \in IF \E k \in 1..2 : call_.buf[k] \in RegWords
                   THEN {WithLive(Regs0, l) : l \in LiveRegs}
                   ELSE {Regs0}
  /\ op = call_.rec
  /\ ret = 0
  /\ opcode_desc = 0
  /\ next_op = <<>>
  /\ reads = {}
  /\ depth = 0
  /\ calls = 0
  /\ prev = NoPrev
  /\ lookup = NoLookup
  /\ esil_run = NoRun
  /\ arm_il = NoIl /\ mask = NoMask

NextTable == RunAvrOp \/ RunAnalyze

SpecTable == InitTable /\ [][NextTable]_vars

-----------------------------------------------------------------------------
(* Properties.                                                             *)

(* the first instruction word of the call's buffer *)
Word == call_.buf[1]

(* the name of the descriptor the call's engine returned *)
Name == IF opcode_desc = 0 THEN "NULL" ELSE opcodes_init[opcode_desc].name

(* the call is over and its engine has scanned the table for Word *)
Scanned == pc_ = "done" /\ calls >= 1 /\ call_.len >= 2

(* no descriptor of the table matches w *)
Unmatched(w) == \A i \in 1..(Len(opcodes_init) - 1) : ~Matches(w, opcodes_init[i])

(* the IL program of the single trapping effect, "1,$" *)
Trap == <<D(1), Sep, L("$")>>

(* the Invalid record: class Unknown, size 2, cycles 1, the trap *)
IsInvalid(o) == o.type = "UNK" /\ o.size = 2 /\ o.cycles = 1 /\ o.esil = Trap

(* the call decoded from the initial statics under the live registers l *)
Decoded(cl, l) ==
  IF cl.entry = "avr_op"
  THEN avr_op(cl, cl.rec, opcodes_init, 0, [i \in 1..Len(cpu_models) |-> 0], WithLive(Regs0, l))
  ELSE engine_call(cl, cl.rec, opcodes_init, 0, [i \in 1..Len(cpu_models) |-> 0],
                   WithLive(Regs0, l))

(* C1, as stated: a decode of fewer than 2 bytes leaves the Invalid record *)
(* (size 2, class Unknown, the trap alone), at the top-level entry, in the *)
(* engine called on a zeroed record, and in the look-ahead's engine call.  *)
C1_ShortInputIsInvalid ==
  /\ (pc_ = "done" /\ call_.len < 2 /\ call_.entry = "avr_op_analyze" /\ call_.rec = ZeroOp
        => IsInvalid(op))
  /\ (pc_ = "done" /\ call_.len < 2 /\ call_.entry = "avr_op"
        => op.size = 2 /\ op.type = "UNK" /\ op.esil = Trap)
  /\ (pc_ = "done" /\ next_op # <<>> /\ next_op[1].len < 2 => IsInvalid(next_op[1].op))

(* C2: a word no descriptor matches leaves the Invalid sentinel, whether   *)
(* the engine was called directly, by avr_op or by a look-ahead: class     *)
(* Unknown, size 2 (the disassembler's size under avr_op), cycles 1, the   *)
(* trap alone, NULL returned and the targets as they were on entry; and a  *)
(* raised fail flag takes any descriptor's decode to the same sentinel.    *)
C2_UnmatchedIsInvalid ==
  /\ (Scanned /\ Unmatched(Word)
        => /\ opcode_desc = 0
           /\ IsInvalid([op EXCEPT !.size = IF call_.entry = "avr_op" THEN 2 ELSE @])
           /\ call_.entry = "avr_op" => op.size = call_.dis.size
           /\ op.family = "UNKNOWN" /\ op.nopcode = 1
           /\ op.jump = call_.rec.jump /\ op.fail = call_.rec.fail
           /\ opcodes = opcodes_init)
  /\ (pc_ = "done" /\ next_op # <<>> /\ next_op[1].len >= 2 /\ Unmatched(call_.buf[2])
        => /\ IsInvalid(next_op[1].op)
           /\ next_op[1].op.jump = ZeroOp.jump /\ next_op[1].op.fail = ZeroOp.fail)
  /\ (Scanned
        => \A i \in 1..(Len(opcodes) - 1) :
             LET n == Handled([Context(op, opcodes) EXCEPT !.fail = 1], i, call_.addr)
             IN n.desc = 0 /\ IsInvalid(n.c.op) /\ n.c.tab = opcodes)

(* an unmatched word has gone through the engine *)
C2_Witness ==
  Scanned /\ call_.entry = "avr_op_analyze" /\ Word = \hffff /\ Unmatched(Word)
  /\ op.esil = Trap /\ opcode_desc = 0

(* C3: the descriptor dispatched to is the lowest-indexed one whose mask   *)
(* and selector match the word, so of two matching descriptors the later   *)
(* is never taken: 0x9698 goes to break, not adiw, and 0x0308 to fmul.     *)
C3_FirstMatchWins ==
  Scanned =>
    /\ opcode_desc = 0 => Unmatched(Word)
    /\ opcode_desc # 0 => /\ Matches(Word, opcodes[opcode_desc])
                          /\ \A k \in 1..(opcode_desc - 1) : ~Matches(Word, opcodes[k])
    /\ Word = \h9698 => Name = "break"
    /\ Word = \h0308 => Name = "fmul"

(* 0x9698, which break and adiw both match, has been dispatched *)
C3_Witness ==
  /\ Scanned /\ Word = \h9698 /\ Name = "break"
  /\ \E j \in 1..(Len(opcodes) - 1) : opcodes[j].name = "adiw" /\ Matches(Word, opcodes[j])

(* C4: a word equal to a descriptor's selector, with len at least the      *)
(* descriptor's size, is dispatched to that descriptor and the record has  *)
(* its class and, where the engine's size is what decode reports, its size *)
C4_SelectorDispatchesToItself ==
  \A i \in 1..(Len(opcodes_init) - 1) :
    (Scanned /\ Word = opcodes_init[i].selector /\ call_.len >= opcodes_init[i].size)
      => /\ opcode_desc = i
         /\ op.type = opcodes_init[i].type
         /\ call_.entry = "avr_op_analyze" => op.size = opcodes_init[i].size

(* the selector of the 4-byte call has been decoded with its 4 bytes *)
C4_Witness ==
  /\ Scanned /\ call_.entry = "avr_op_analyze" /\ Word = \h940e /\ call_.len = 4
  /\ Name = "call" /\ op.size = 4 /\ op.type = "CALL"

(* C5, as stated: decoding the same bytes, length, address and variant a   *)
(* second time gives the record and the result of the first time.          *)
C5_DecodeIsIdempotent ==
  (pc_ = "done" /\ prev.some) => (op = prev.op /\ ret = prev.ret /\ opcode_desc = prev.desc)

(* C6, as stated: the record of a decode that matched a descriptor, given  *)
(* the bytes of its whole instruction, reports at least 1 cycle.           *)
C6_CyclesAtLeastOne ==
  (Scanned /\ opcode_desc # 0 /\ call_.len >= opcodes_init[opcode_desc].size) => op.cycles >= 1

FollowingSize ==
  IF call_.len - 2 < 2 \/ Unmatched(call_.buf[2]) THEN 2
  ELSE opcodes_init[CHOOSE i \in 1..(Len(opcodes_init) - 1) :
                      /\ Matches(call_.buf[2], opcodes_init[i])
                      /\ \A k \in 1..(i - 1) : ~Matches(call_.buf[2], opcodes_init[k])].size

(* C8, as stated: the taken target of cpse, sbic, sbis, sbrc and sbrs is   *)
(* the address + 2 + the size of the following instruction, 2 when it is   *)
(* unmatched or fewer than 2 bytes remain; the fallthrough target is the   *)
(* address + 2.                                                            *)
C8_SkipTarget ==
  (Scanned /\ Name \in {"cpse", "sbix", "sbrx"})
    => /\ op.jump = call_.addr + 2 + FollowingSize
       /\ op.fail = call_.addr + 2

(* C9: no decode reads the caller's buffer at or beyond len; call, jmp,    *)
(* lds and sts read bytes 2 and 3 only when len >= 4; the look-ahead is    *)
(* given the buffer from byte 2 on and len - 2.                            *)
C9_ReadsWithinLen ==
  pc_ = "done" =>
    /\ \A i \in reads : 0 <= i /\ i < call_.len
    /\ (Name \in {"call", "jmp", "lds", "sts"} /\ reads \cap {2, 3} # {}) => call_.len >= 4
    /\ (Name \in {"call", "jmp", "lds", "sts"} /\ call_.len >= 4) => reads = {0, 1, 2, 3}
    /\ next_op # <<>> => next_op[1].off = 2 /\ next_op[1].len = call_.len - 2
    /\ Name \in {"cpse", "sbix", "sbrx"} => next_op # <<>>

(* a 4-byte handler has read all of its 4 bytes, and a look-ahead has run  *)
(* on a buffer a 4-byte instruction does not fit in                        *)
C9_Witness ==
  /\ pc_ = "done"
  /\ \/ Name = "call" /\ call_.len = 4 /\ reads = {0, 1, 2, 3}
     \/ Name = "cpse" /\ call_.len = 5 /\ call_.buf[2] = \h940e /\ reads = {0, 1, 2, 3}

(* the bytes of a program counter of the given width *)
PcBytes(width) == (width + 7) \div 8

(* the program t assigns pc at k: "pc,=" *)
AssignsPc(t, k) == k + 2 <= Len(t) /\ t[k] = L("pc") /\ t[k + 1] = Sep /\ t[k + 2] = L("=")

(* the program t stores n bytes at i: "=[n]" *)
Stores(t, i, n) == i <= Len(t) /\ t[i] = St(n)

(* the program t lowers sp by n at j: "-n,sp,+=" *)
LowersSp(t, j, n) ==
  /\ j + 4 <= Len(t)
  /\ t[j] = D(0 - n) /\ t[j + 1] = Sep /\ t[j + 2] = L("sp") /\ t[j + 3] = Sep
  /\ t[j + 4] = L("+=")

(* C10: the program of call, rcall, icall and eicall stores                *)
(* ceil(pc width / 8) bytes of return address, as the only store, lowers   *)
(* sp by as many, and does both before it assigns pc.                      *)
C10_CallPushesReturnAddress ==
  (Scanned /\ Name \in {"call", "rcall", "icall", "eicall"} /\ (Name = "call" => call_.len >= 4))
    => LET n == PcBytes(cpu_models[cpu_cache].pc)
           t == op.esil
       IN /\ n = CASE cpu_models[cpu_cache].pc = 8 -> 1
                   [] cpu_models[cpu_cache].pc \in 13..16 -> 2
                   [] cpu_models[cpu_cache].pc = 17 -> 3
          /\ \E i \in 1..Len(t), j \in 1..Len(t), k \in 1..Len(t) :
               /\ Stores(t, i, n) /\ LowersSp(t, j, n) /\ AssignsPc(t, k)
               /\ i < j /\ j + 4 < k
          /\ \A i \in 1..Len(t) : t[i][1] = "=[%d]" => t[i] = St(n)
          /\ \A j \in 1..Len(t) : (j + 4 <= Len(t) /\ t[j + 2] = L("sp") /\ t[j + 4] = L("+="))
                                    => LowersSp(t, j, n)
          /\ \A k \in 1..Len(t) :
               AssignsPc(t, k) => \E i \in 1..k, j \in 1..k : Stores(t, i, n) /\ LowersSp(t, j, n)

(* a call has been decoded for a model whose pc is 17 bits wide or 8 bits  *)
(* wide                                                                    *)
C10_Witness ==
  /\ Scanned /\ Name \in {"call", "eicall"} /\ (Name = "call" => call_.len >= 4)
  /\ cpu_cache # 0
  /\ \/ cpu_models[cpu_cache].pc = 17 /\ \E i \in 1..Len(op.esil) : op.esil[i] = St(3)
     \/ cpu_models[cpu_cache].pc = 8 /\ \E i \in 1..Len(op.esil) : op.esil[i] = St(1)

-----------------------------------------------------------------------------
(* The CPU model registry: lookups of models and of constants by name.     *)

(* const_get_value: <<citem>> is an entry, <<>> is NULL *)
const_get_value(c) == IF c # <<>> THEN MASK_and(c[1].size * 8, c[1].value) ELSE 0

(* const_by_name that never follows inherit_cpu_p *)
const_by_name_own(cpu, type, c, g, k, inh) ==
  LET own == {<<x, y>> \in (1..Len(cpu_models[cpu].consts)) \X (1..4) :
                /\ y <= Len(cpu_models[cpu].consts[x])
                /\ c = cpu_models[cpu].consts[x][y].key
                /\ (type = CPU_CONST_NONE \/ type = cpu_models[cpu].consts[x][y].type)}
  IN IF own = {} THEN <<>>
     ELSE LET first == CHOOSE e \in own : \A f \in own : e[1] < f[1] \/ (e[1] = f[1] /\ e[2] <= f[2])
          IN <<cpu_models[cpu].consts[first[1]][first[2]]>>

(* const_by_name from group g, entry k of cpu on: the loops over clist and *)
(* citem, then the parent, then NULL                                       *)
RECURSIVE const_by_name(_, _, _, _, _, _)
const_by_name(cpu, type, c, g, k, inh) ==
  LET groups == cpu_models[cpu].consts
  IN IF g > Len(groups)
     THEN IF inh[cpu] # 0 THEN const_by_name(inh[cpu], type, c, 1, 1, inh) ELSE <<>>
     ELSE IF k > Len(groups[g]) THEN const_by_name(cpu, type, c, g + 1, 1, inh)
     ELSE LET citem == groups[g][k]
          IN IF c = citem.key /\ (type = CPU_CONST_NONE \/ type = citem.type)
             THEN <<citem>>
             ELSE const_by_name(cpu, type, c, g, k + 1, inh)

(* the keys asked for: of each group, and one no model has *)
Keys == {"page_size", "sram_start", "spmcsr", "flash_size"}

(* the state before any call of the plugin *)
InitRegistry == Init

(* a caller looks a model up: get_cpu_model(analysis->cpu) *)
GetCpuModel ==
  /\ \E name \in CpuNames :
       LET r == get_cpu_model(name, cpu_cache, inherit_cpu_p)
       IN /\ lookup' = [kind |-> "model", name |-> name, cpu |-> r.cpu, before |-> cpu_cache]
          /\ cpu_cache' = r.cache
          /\ inherit_cpu_p' = r.inh
  /\ UNCHANGED <<decoder, esil_regs, esil_run, arm_il, mask>>

(* the caller looks a constant of the model it holds up by name *)
ConstByName ==
  /\ lookup.kind # "none"
  /\ \E c \in Keys, type \in {CPU_CONST_NONE, CPU_CONST_PARAM, CPU_CONST_REG} :
       lookup' = [kind |-> "const", name |-> lookup.name, cpu |-> lookup.cpu,
                  before |-> 0, key |-> c, type |-> type,
                  citem |-> const_by_name(lookup.cpu, type, c, 1, 1, inherit_cpu_p),
                  value |-> const_get_value(const_by_name(lookup.cpu, type, c, 1, 1,
                                                          inherit_cpu_p))]
  /\ UNCHANGED <<decoder, cpu_cache, inherit_cpu_p, esil_regs, esil_run, arm_il, mask>>

NextRegistry == GetCpuModel \/ ConstByName

SpecRegistry == InitRegistry /\ [][NextRegistry]_vars

(* the index of the model named name in cpu_models, 0 if there is none *)
Named(name) ==
  IF \E i \in 1..Len(cpu_models) : cpu_models[i].model = name
  THEN CHOOSE i \in 1..Len(cpu_models) : cpu_models[i].model = name
  ELSE 0

(* the entries of the groups gs, in order *)
RECURSIVE Flat(_)
Flat(gs) == IF gs = <<>> THEN <<>> ELSE Head(gs) \o Flat(Tail(gs))

(* the entries of model i and then of its ancestors *)
RECURSIVE Chain(_)
Chain(i) ==
  Flat(cpu_models[i].consts)
  \o (IF Named(cpu_models[i].inherit) # 0 THEN Chain(Named(cpu_models[i].inherit)) ELSE <<>>)

(* C13: a lookup by name returns the first entry, of the model's own groups *)
(* and then of its ancestors', whose key and, when a kind is asked for,    *)
(* kind match; a model without groups of its own gets its parent's entry,  *)
(* and a key no model of the chain has gets NULL, whose value reads as 0.  *)
C13_ConstantLookupFollowsParents ==
  lookup.kind = "const" =>
    LET chain == Chain(lookup.cpu)
        hits == {n \in 1..Len(chain) :
                   /\ chain[n].key = lookup.key
                   /\ lookup.type \in {CPU_CONST_NONE, chain[n].type}}
    IN /\ hits = {} => lookup.citem = <<>> /\ lookup.value = 0
       /\ hits # {} => /\ lookup.citem = <<chain[CHOOSE n \in hits : \A m \in hits : n <= m]>>
                       /\ lookup.value = lookup.citem[1].value
       /\ (cpu_models[lookup.cpu].consts = <<>> /\ Named(cpu_models[lookup.cpu].inherit) # 0)
            => lookup.citem = const_by_name(Named(cpu_models[lookup.cpu].inherit), lookup.type,
                                            lookup.key, 1, 1, inherit_cpu_p)

(* ATmega88, which has no group of its own, has been asked for page_size   *)
(* and ATmega2560 for a key no model has                                   *)
C13_Witness ==
  /\ lookup.kind = "const"
  /\ \/ /\ cpu_models[lookup.cpu].model = "ATmega88" /\ lookup.key = "page_size"
        /\ lookup.type = CPU_CONST_PARAM /\ lookup.value = 5
     \/ /\ cpu_models[lookup.cpu].model = "ATmega2560" /\ lookup.key = "flash_size"
        /\ lookup.citem = <<>> /\ lookup.value = 0

(* C14: whatever lookups came before, get_cpu_model returns the model a    *)
(* search of the table without the cache returns for the name: the entry   *)
(* whose name matches without regard to case, else the last entry,         *)
(* ATmega8; the model returned on a cache hit has the name asked for.      *)
C14_CacheIsTransparent ==
  lookup.kind = "model" =>
    LET matching == {i \in 1..Len(cpu_models) :
                       LowerCase[cpu_models[i].model] = LowerCase[lookup.name]}
    IN /\ matching # {} => lookup.cpu \in matching
       /\ matching = {} => lookup.cpu = Len(cpu_models) /\ cpu_models[lookup.cpu].model = "ATmega8"
       /\ Cardinality(matching) <= 1
       /\ cpu_cache = lookup.cpu

(* a name in another case has been looked up while the cache held another  *)
(* model, and a name has been looked up while the cache held its model     *)
C14_Witness ==
  /\ lookup.kind = "model"
  /\ \/ lookup.name = "ATMEGA2560" /\ lookup.before = 8 /\ lookup.cpu = 5
     \/ lookup.name = "atmega88" /\ lookup.before = 7 /\ lookup.cpu = 7

-----------------------------------------------------------------------------
(* The interpreter session and the custom operations of esil_avr_init.     *)
(* esil_run holds the session: the name in analysis->cpu, the evaluation   *)
(* stack (tokens, the top last), the registers other than those of         *)
(* esil_regs, and the bytes of memory written so far.                      *)

(* a token that stands for a number *)
IsNum(t) == t[1] \in {"%d", "0x%x", "hex", "-%d"}

(* the number v as an element of the stack *)
Num(v) == D(v)

(* rz_analysis_esil_get_parm: the value of a stack element, <<>> if it has *)
(* none                                                                    *)
get_parm(run, t) ==
  IF IsNum(t) THEN <<t[3]>>
  ELSE IF t \in DOMAIN run.reg THEN <<run.reg[t]>>
  ELSE <<>>

(* __esil_pop_argument: [ok, v, run] *)
__esil_pop_argument(run) ==
  IF run.stack = <<>> \/ get_parm(run, run.stack[Len(run.stack)]) = <<>>
  THEN [ok |-> FALSE, v |-> 0,
        run |-> [run EXCEPT !.stack = IF @ = <<>> THEN @ ELSE SubSeq(@, 1, Len(@) - 1)]]
  ELSE [ok |-> TRUE, v |-> get_parm(run, run.stack[Len(run.stack)])[1],
        run |-> [run EXCEPT !.stack = SubSeq(@, 1, Len(@) - 1)]]

(* rz_analysis_esil_mem_write of the bytes bs at addr *)
mem_write(mem, addr, bs) ==
  [a \in DOMAIN mem \cup {addr + i - 1 : i \in 1..Len(bs)} |->
     IF a - addr \in 0..(Len(bs) - 1) THEN bs[a - addr + 1] ELSE mem[a]]

(* the custom operation returned false *)
Failed(run) == [run EXCEPT !.ok = FALSE]

(* page_size_bits of the session's model *)
page_size_bits(cpu, inh) ==
  const_get_value(const_by_name(cpu, CPU_CONST_PARAM, "page_size", 1, 1, inh))

(* the loop of avr_custom_spm_page_erase from i on: one byte 0xff written  *)
(* at (addr + j) & CPU_PC_MASK(cpu) for each j from i below n              *)
erase_loop(mem, addr, i, n, pc) ==
  [a \in DOMAIN mem \cup {(addr + j) % Pow2(pc) : j \in i..(n - 1)} |->
     IF a \in {(addr + j) % Pow2(pc) : j \in i..(n - 1)} THEN \hff ELSE mem[a]]

(* the erase that writes from the address popped, unaligned *)
page_erase_unaligned(run, p, m) ==
  IF ~p.ok THEN Failed(p.run)
  ELSE [p.run EXCEPT !.mem = erase_loop(@, p.v, 0, Pow2(page_size_bits(m.cpu, m.inh)),
                                        cpu_models[m.cpu].pc)]

(* avr_custom_spm_page_erase once the argument p is popped and the model m *)
(* looked up                                                               *)
page_erase(run, p, m) ==
  IF ~p.ok THEN Failed(p.run)
  ELSE [p.run EXCEPT !.mem = erase_loop(@, p.v - (p.v % Pow2(page_size_bits(m.cpu, m.inh))), 0,
                                        Pow2(page_size_bits(m.cpu, m.inh)),
                                        cpu_models[m.cpu].pc)]

(* ESIL operation SPM_PAGE_ERASE: [run, cache, inh] *)
avr_custom_spm_page_erase(run, cache, inh) ==
  IF ~__esil_pop_argument(run).ok
  THEN [run |-> Failed(__esil_pop_argument(run).run), cache |-> cache, inh |-> inh]
  ELSE [run |-> page_erase(run, __esil_pop_argument(run), get_cpu_model(run.cpu, cache, inh)),
        cache |-> get_cpu_model(run.cpu, cache, inh).cache,
        inh |-> get_cpu_model(run.cpu, cache, inh).inh]

(* avr_custom_spm_page_fill once addr, r0 and r1 are popped and the model  *)
(* m looked up: addr &= (MASK(page_size_bits) ^ 1), then the two writes    *)
page_fill(run, a, r0, r1, m) ==
  [run EXCEPT !.mem =
     mem_write(mem_write(@, (a % Pow2(page_size_bits(m.cpu, m.inh))) - (a % 2), <<r0 % 256>>),
               (a % Pow2(page_size_bits(m.cpu, m.inh))) - (a % 2) + 1, <<r1 % 256>>)]

(* the three pops of avr_custom_spm_page_fill: [ok, run, addr, r0, r1] *)
fill_args(p1, p2, p3) ==
  [ok |-> p1.ok /\ p2.ok /\ p3.ok,
   run |-> IF ~p1.ok THEN p1.run ELSE IF ~p2.ok THEN p2.run ELSE p3.run,
   addr |-> p1.v, r0 |-> p2.v, r1 |-> p3.v]

fill_pops(run) ==
  fill_args(__esil_pop_argument(run),
            __esil_pop_argument(__esil_pop_argument(run).run),
            __esil_pop_argument(__esil_pop_argument(__esil_pop_argument(run).run).run))

(* ESIL operation SPM_PAGE_FILL: [run, cache, inh] *)
avr_custom_spm_page_fill(run, cache, inh) ==
  IF ~fill_pops(run).ok
  THEN [run |-> Failed(fill_pops(run).run), cache |-> cache, inh |-> inh]
  ELSE [run |-> page_fill(fill_pops(run).run, fill_pops(run).addr, fill_pops(run).r0,
                          fill_pops(run).r1, get_cpu_model(run.cpu, cache, inh)),
        cache |-> get_cpu_model(run.cpu, cache, inh).cache,
        inh |-> get_cpu_model(run.cpu, cache, inh).inh]

(* a byte of memory nothing has written reads as 0xff *)
Unwritten == \hff

(* rz_analysis_esil_mem_read of n bytes at addr *)
mem_read(mem, addr, n) ==
  [i \in 1..n |-> IF addr + i - 1 \in DOMAIN mem THEN mem[addr + i - 1] ELSE Unwritten]

(* avr_custom_spm_page_write once the target p is popped, the model m      *)
(* looked up and _page read: addr &= ~MASK(page_size_bits) & CPU_PC_MASK,  *)
(* then the page at tmp_page is read and written at addr                   *)
page_write(run, p, m, tmp_page) ==
  IF ~p.ok THEN Failed(p.run)
  ELSE [p.run EXCEPT !.mem =
          mem_write(@, (p.v % Pow2(cpu_models[m.cpu].pc))
                         - (p.v % Pow2(page_size_bits(m.cpu, m.inh))),
                    mem_read(@, tmp_page, Pow2(page_size_bits(m.cpu, m.inh))))]

(* ESIL operation SPM_PAGE_WRITE: [run, cache, inh] *)
avr_custom_spm_page_write(run, cache, inh, regs) ==
  IF ~__esil_pop_argument(run).ok
  THEN [run |-> Failed(__esil_pop_argument(run).run), cache |-> cache, inh |-> inh]
  ELSE [run |-> page_write(run, __esil_pop_argument(run), get_cpu_model(run.cpu, cache, inh),
                           regs._page),
        cache |-> get_cpu_model(run.cpu, cache, inh).cache,
        inh |-> get_cpu_model(run.cpu, cache, inh).inh]

(* the registers of a session: r0..r31 and the flags of sreg *)
Flags == {"cf", "zf", "nf", "vf", "sf", "hf"}

RegFile == {R(n) : n \in 0..31} \cup {L(f) : f \in Flags}

(* what the program pushed for a custom operation *)
Operands(a, r0, r1) == [a |-> a, r0 |-> r0, r1 |-> r1]

(* a session of the model named cpu that has pushed stack *)
Session(kind, cpu, stack, arg) ==
  [kind |-> kind, cpu |-> cpu, stack |-> stack, arg |-> arg, reg |-> [t \in RegFile |-> 0],
   mem |-> [a \in {} |-> 0], ok |-> TRUE, done |-> FALSE, prog |-> <<>>, cur |-> 0,
   old |-> 0, lastsz |-> 0, underflow |-> FALSE, target |-> 0, loaded |-> {}]

(* target addresses: inside and beyond the program counter's range of each *)
(* model, at and off a page boundary                                       *)
Addresses ==
  {\h0, \h1, \h10, \h1f, \h20, \h7f, \h80, \hff, \h100, \h1234, \h1fff, \h2010, \hffff, \h1ffff,
   \h20005, \h7fffffff}

(* targets of a page write: in the first page, off a page boundary, and    *)
(* beyond the smaller program counters                                     *)
Targets == {\h0, \h40, \h7e, \h1234, \h2010}

(* the profiles avr_op lays the memory out by *)
SpmProfiles ==
  Profiles \cup {[pc |-> 16, sram_start |-> 512, sram_size |-> 8192, eeprom_size |-> 4096]}

(* the state once avr_op has laid the memory out for the interpreter *)
InitSpm ==
  /\ pc_ = "idle" /\ opcodes = opcodes_init /\ cpu_cache = 0
  /\ inherit_cpu_p = [i \in 1..Len(cpu_models) |-> 0]
  /\ esil_regs \in {LayoutRegs(Regs0, p) : p \in SpmProfiles}
  /\ call_ = NoCall /\ op = ZeroOp /\ ret = 0 /\ opcode_desc = 0 /\ next_op = <<>>
  /\ reads = {} /\ depth = 0 /\ calls = 0 /\ prev = NoPrev
  /\ lookup = NoLookup /\ esil_run = NoRun /\ arm_il = NoIl /\ mask = NoMask

(* the program of spm has pushed the operands of a custom operation: the   *)
(* target address, and under it r0 and r1 for a fill                       *)
PushOperands ==
  /\ esil_run.kind = "none"
  /\ \E cpu \in CpuNames, a \in Addresses :
       \/ esil_run' = Session("SPM_PAGE_ERASE", cpu, <<Num(a)>>, Operands(a, 0, 0))
       \/ \E r0 \in {\h12, \hff}, r1 \in {\h34} :
            esil_run' = Session("SPM_PAGE_FILL", cpu, <<Num(r1), Num(r0), Num(a)>>,
                                Operands(a, r0, r1))
       \/ \E k \in {"SPM_PAGE_ERASE", "SPM_PAGE_FILL"}, st \in {<<>>, <<L("nothing")>>, <<Num(a)>>} :
            esil_run' = Session(k, cpu, st, Operands(a, 0, 0))
  /\ UNCHANGED <<decoder, cpu_cache, inherit_cpu_p, esil_regs, lookup, arm_il, mask>>

(* the effect of a finished custom operation r *)
Ran(r) ==
  /\ esil_run' = [r.run EXCEPT !.done = TRUE]
  /\ cpu_cache' = r.cache
  /\ inherit_cpu_p' = r.inh
  /\ UNCHANGED <<decoder, esil_regs, lookup, arm_il, mask>>

SpmPageErase ==
  /\ esil_run.kind = "SPM_PAGE_ERASE" /\ ~esil_run.done
  /\ Ran(avr_custom_spm_page_erase(esil_run, cpu_cache, inherit_cpu_p))

SpmPageFill ==
  /\ esil_run.kind = "SPM_PAGE_FILL" /\ ~esil_run.done
  /\ Ran(avr_custom_spm_page_fill(esil_run, cpu_cache, inherit_cpu_p))

(* after a fill the program of the next spm pushes the target of a page    *)
(* write, or comes to the operation with nothing pushed                    *)
PushTarget ==
  /\ esil_run.kind = "SPM_PAGE_FILL" /\ esil_run.done /\ esil_run.ok
  /\ \E t \in Targets : \E st \in {<<Num(t)>>, <<>>} :
       /\ st = <<>> => t = 0
       /\ esil_run' = [esil_run EXCEPT !.kind = "SPM_PAGE_WRITE", !.stack = st,
                                       !.done = FALSE, !.target = t]
  /\ UNCHANGED <<decoder, cpu_cache, inherit_cpu_p, esil_regs, lookup, arm_il, mask>>

SpmPageWrite ==
  /\ esil_run.kind = "SPM_PAGE_WRITE" /\ ~esil_run.done
  /\ Ran(avr_custom_spm_page_write(esil_run, cpu_cache, inherit_cpu_p, esil_regs))

NextSpm == PushOperands \/ SpmPageErase \/ SpmPageFill \/ PushTarget \/ SpmPageWrite

SpecSpm == InitSpm /\ [][NextSpm]_vars

(* the bytes of the page of 2^bits bytes that holds address a *)
PageOf(a, bits) == {(a - (a % Pow2(bits))) + i : i \in 0..(Pow2(bits) - 1)}

(* the model of the session and its page_size *)
SessionCpu == cpu_search(esil_run.cpu, 1)

PageBits == CASE cpu_models[SessionCpu].model \in {"ATmega8", "ATmega88"} -> 5 [] OTHER -> 7

(* C11, as stated: the page erase writes 0xFF to exactly the 2^page_size   *)
(* bytes of the page that holds A, also when A is beyond the range of the  *)
(* model's program counter.                                                *)
C11_PageEraseExact ==
  (esil_run.kind = "SPM_PAGE_ERASE" /\ esil_run.done /\ esil_run.ok)
    => /\ DOMAIN esil_run.mem = PageOf(esil_run.arg.a, PageBits)
       /\ \A a \in DOMAIN esil_run.mem : esil_run.mem[a] = \hff

(* C11, amended: the page erase writes 0xFF to exactly the 2^page_size     *)
(* bytes of the page that holds A, each address taken modulo 2^pc of the   *)
(* model, and to no other byte.                                            *)
C11_PageEraseWrapped ==
  (esil_run.kind = "SPM_PAGE_ERASE" /\ esil_run.done /\ esil_run.ok)
    => /\ DOMAIN esil_run.mem
            = {a % Pow2(cpu_models[SessionCpu].pc) : a \in PageOf(esil_run.arg.a, PageBits)}
       /\ Cardinality(DOMAIN esil_run.mem) = Pow2(PageBits)
       /\ \A a \in DOMAIN esil_run.mem : esil_run.mem[a] = \hff
       /\ esil_run.arg.a < Pow2(cpu_models[SessionCpu].pc)
            => DOMAIN esil_run.mem = PageOf(esil_run.arg.a, PageBits)

(* a page beyond the program counter's range has been erased, and one off  *)
(* a page boundary within it                                               *)
C11_Witness ==
  /\ esil_run.kind = "SPM_PAGE_ERASE" /\ esil_run.done /\ esil_run.ok
  /\ \/ esil_run.arg.a = \h2010 /\ cpu_models[SessionCpu].pc = 13 /\ 0 \in DOMAIN esil_run.mem
     \/ esil_run.arg.a = \h1234 /\ cpu_models[SessionCpu].pc = 17
        /\ DOMAIN esil_run.mem = \h1200..\h127f

(* C12, as stated: the page fill writes r0 and then r1 at an even address  *)
(* and the one after it, both inside the 2^page_size bytes from the base   *)
(* in _page, which SPM_PAGE_WRITE reads, and no other byte.                *)
C12_PageFillInsideBuffer ==
  (esil_run.kind = "SPM_PAGE_FILL" /\ esil_run.done /\ esil_run.ok)
    => \E a \in DOMAIN esil_run.mem :
         /\ a % 2 = 0
         /\ DOMAIN esil_run.mem = {a, a + 1}
         /\ esil_run.mem[a] = esil_run.arg.r0 /\ esil_run.mem[a + 1] = esil_run.arg.r1
         /\ a >= esil_regs._page /\ a + 1 < esil_regs._page + Pow2(PageBits)

-----------------------------------------------------------------------------
(* The ARM lifter of arm_il32.c.  An IL node is a record [op, name, val,   *)
(* args]; a bitvector of len bits is [len, hi, lo], lo its low 16 bits (or *)
(* all of them when len < 16) and hi the bits above.  A node built over a  *)
(* NULL operand is NULL.                                                   *)

BV(len, hi, lo) == [len |-> len, hi |-> hi, lo |-> lo]

NoVal == BV(0, 0, 0)

Node(o, name, val, args) == [op |-> o, name |-> name, val |-> val, args |-> args]

NULL == Node("NULL", "", NoVal, <<>>)

UN(len, n) ==
  Node("bitv", "", BV(len, IF len > 16 THEN n \div 65536 ELSE 0,
                      IF len > 16 THEN n % 65536 ELSE n % Pow2(len)), <<>>)

U32(n) == UN(32, n)

(* U32 of an immediate kept as a bitvector *)
Bitv(v) == Node("bitv", "", v, <<>>)

IL_TRUE == Node("b", "true", NoVal, <<>>)

IL_FALSE == Node("b", "false", NoVal, <<>>)

VARG(v) == Node("var", v, NoVal, <<>>)

VARL(v) == Node("varl", v, NoVal, <<>>)

INV(x) == IF x = NULL THEN NULL ELSE Node("inv", "", NoVal, <<x>>)

AND(x, y) == IF x = NULL \/ y = NULL THEN NULL ELSE Node("and", "", NoVal, <<x, y>>)

XOR(x, y) == IF x = NULL \/ y = NULL THEN NULL ELSE Node("xor", "", NoVal, <<x, y>>)

ADD(x, y) == IF x = NULL \/ y = NULL THEN NULL ELSE Node("add", "", NoVal, <<x, y>>)

SUB(x, y) == IF x = NULL \/ y = NULL THEN NULL ELSE Node("sub", "", NoVal, <<x, y>>)

ITE(c, x, y) ==
  IF c = NULL \/ x = NULL \/ y = NULL THEN NULL ELSE Node("ite", "", NoVal, <<c, x, y>>)

MSB(x) == IF x = NULL THEN NULL ELSE Node("msb", "", NoVal, <<x>>)

IS_ZERO(x) == IF x = NULL THEN NULL ELSE Node("is_zero", "", NoVal, <<x>>)

UNSIGNED(len, x) == IF x = NULL THEN NULL ELSE Node("cast", "", BV(len, 0, 0), <<x>>)

LOADW(len, addr) ==
  IF addr = NULL THEN NULL ELSE Node("loadw", "", BV(len, 0, 0), <<addr>>)

LOAD(addr) == LOADW(8, addr)

DUP(x) == x

SETG(v, x) == IF x = NULL THEN NULL ELSE Node("set", v, NoVal, <<x>>)

SETL(v, x) == IF x = NULL THEN NULL ELSE Node("setl", v, NoVal, <<x>>)

STOREW(addr, x) ==
  IF addr = NULL \/ x = NULL THEN NULL ELSE Node("storew", "", NoVal, <<addr, x>>)

STORE(addr, x) == STOREW(addr, x)

SHIFTL0(x, d) == IF x = NULL \/ d = NULL THEN NULL ELSE Node("shiftl", "", NoVal, <<IL_FALSE, x, d>>)

SHIFTR(f, x, d) ==
  IF f = NULL \/ x = NULL \/ d = NULL THEN NULL ELSE Node("shiftr", "", NoVal, <<f, x, d>>)

SHIFTR0(x, d) == SHIFTR(IL_FALSE, x, d)

SHIFTRA(x, d) == SHIFTR(MSB(DUP(x)), x, d)

LOGOR(x, y) == IF x = NULL \/ y = NULL THEN NULL ELSE Node("logor", "", NoVal, <<x, y>>)

JMP(x) == IF x = NULL THEN NULL ELSE Node("jmp", "", NoVal, <<x>>)

NOP == Node("nop", "", NoVal, <<>>)

(* a sequence keeps the effects it is given, a NULL one as well *)
SEQ(es) == Node("seq", "", NoVal, es)

BRANCH(c, t, f) == Node("branch", "", NoVal, <<c, t, f>>)

(* the operands of a cs_insn: operand n counts from 0; one the instruction *)
(* does not have is of no type                                             *)
(* reg is the register of a register operand and the base of a memory     *)
(* operand; index, shift and subtracted are those of cs_arm_op            *)
NoShift == [type |-> "ARM_SFT_INVALID", value |-> 0]

NoOperand ==
  [type |-> "ARM_OP_INVALID", reg |-> "ARM_REG_INVALID", imm |-> BV(32, 0, 0), disp |-> 0,
   index |-> "ARM_REG_INVALID", shift |-> NoShift, subtracted |-> FALSE]

Operand(insn, n) == IF n < Len(insn.operands) THEN insn.operands[n + 1] ELSE NoOperand

OPCOUNT(insn) == Len(insn.operands)

ISREG(insn, n) == Operand(insn, n).type = "ARM_OP_REG"

ISIMM(insn, n) == Operand(insn, n).type = "ARM_OP_IMM"

ISMEM(insn, n) == Operand(insn, n).type = "ARM_OP_MEM"

REGID(insn, n) == Operand(insn, n).reg

IMM(insn, n) == Operand(insn, n).imm

names ==
  [ARM_REG_LR |-> "lr", ARM_REG_SP |-> "sp",
   ARM_REG_Q0 |-> "q0", ARM_REG_Q1 |-> "q1", ARM_REG_Q2 |-> "q2", ARM_REG_Q3 |-> "q3",
   ARM_REG_Q4 |-> "q4", ARM_REG_Q5 |-> "q5", ARM_REG_Q6 |-> "q6", ARM_REG_Q7 |-> "q7",
   ARM_REG_Q8 |-> "q8", ARM_REG_Q9 |-> "q9", ARM_REG_Q10 |-> "q10", ARM_REG_Q11 |-> "q11",
   ARM_REG_Q12 |-> "q12", ARM_REG_Q13 |-> "q13", ARM_REG_Q14 |-> "q14", ARM_REG_Q15 |-> "q15",
   ARM_REG_R0 |-> "r0", ARM_REG_R1 |-> "r1", ARM_REG_R2 |-> "r2", ARM_REG_R3 |-> "r3",
   ARM_REG_R4 |-> "r4", ARM_REG_R5 |-> "r5", ARM_REG_R6 |-> "r6", ARM_REG_R7 |-> "r7",
   ARM_REG_R8 |-> "r8", ARM_REG_R9 |-> "r9", ARM_REG_R10 |-> "r10", ARM_REG_R11 |-> "r11",
   ARM_REG_R12 |-> "r12"]

(* the variable of a register, "" for NULL *)
reg_var_name(reg) == IF reg \in DOMAIN names THEN names[reg] ELSE ""

read_reg(addr, reg) ==
  IF reg = "ARM_REG_PC" THEN U32(addr)
  ELSE IF reg_var_name(reg) # "" THEN VARG(reg_var_name(reg)) ELSE NULL

REG(insn, n) == read_reg(insn.address, REGID(insn, n))

MEMBASE(insn, n) == read_reg(insn.address, Operand(insn, n).reg)

MEMINDEX(insn, n) == read_reg(insn.address, Operand(insn, n).index)

MEMDISP(insn, n) == Operand(insn, n).disp

write_reg(reg, v) == IF reg_var_name(reg) # "" THEN SETG(reg_var_name(reg), v) ELSE NULL

(* cond: the IL of an ARM condition, NULL for the unconditional ones *)
cond(c) ==
  CASE c = "ARM_CC_EQ" -> VARG("zf")
    [] c = "ARM_CC_NE" -> INV(VARG("zf"))
    [] c = "ARM_CC_HS" -> VARG("cf")
    [] c = "ARM_CC_LO" -> INV(VARG("cf"))
    [] c = "ARM_CC_MI" -> VARG("nf")
    [] c = "ARM_CC_PL" -> INV(VARG("nf"))
    [] c = "ARM_CC_VS" -> VARG("vf")
    [] c = "ARM_CC_VC" -> INV(VARG("vf"))
    [] c = "ARM_CC_HI" -> AND(VARG("cf"), INV(VARG("zf")))
    [] c = "ARM_CC_LS" -> AND(INV(VARG("cf")), VARG("zf"))
    [] c = "ARM_CC_GE" -> INV(XOR(VARG("nf"), VARG("vf")))
    [] c = "ARM_CC_LT" -> XOR(VARG("nf"), VARG("vf"))
    [] c = "ARM_CC_GT" -> AND(INV(VARG("zf")), INV(XOR(VARG("nf"), VARG("vf"))))
    [] c = "ARM_CC_LE" -> AND(VARG("zf"), XOR(VARG("nf"), VARG("vf")))
    [] OTHER -> NULL

(* shift: val shifted as the operand says; the distance is a ut8 made a    *)
(* bitvector of 5 bits                                                     *)
shift(val, type, dist) ==
  CASE type = "ARM_SFT_ASR" -> SHIFTRA(val, UN(5, dist % 256))
    [] type = "ARM_SFT_LSL" -> SHIFTL0(val, UN(5, dist % 256))
    [] type = "ARM_SFT_LSR" -> SHIFTR0(val, UN(5, dist % 256))
    [] type = "ARM_SFT_ROR" ->
         LOGOR(SHIFTR0(val, UN(5, dist % 256)), SHIFTL0(DUP(val), UN(5, 32 - (dist % 256))))
    [] type = "ARM_SFT_RRX" -> SHIFTR(VARG("cf"), val, UN(5, 1))
    [] OTHER -> val

(* the address of memory operand n: base, displacement, then the index *)
arg_mem(insn, n, addr) ==
  IF Operand(insn, n).index # "ARM_REG_INVALID"
  THEN ADD(addr, shift(MEMINDEX(insn, n), Operand(insn, n).shift.type,
                       Operand(insn, n).shift.value))
  ELSE addr

(* the arg that takes every immediate to leave a carry *)
arg_carry_of_any_immediate(insn, n, carry_out) ==
  CASE ISREG(insn, n) -> [r |-> REG(insn, n), carry |-> NULL]
    [] ISIMM(insn, n) ->
         [r |-> Bitv(IMM(insn, n)),
          carry |-> IF carry_out
                    THEN (IF IMM(insn, n).hi >= \h8000 THEN IL_TRUE ELSE IL_FALSE)
                    ELSE NULL]
    [] OTHER -> [r |-> NULL, carry |-> NULL]

(* arg: [r, carry], the IL of operand n and, when a carry is asked for,    *)
(* the carry an immediate leaves (NULL if none).                           *)
arg(insn, n, carry_out) ==
  CASE ISREG(insn, n) -> [r |-> REG(insn, n), carry |-> NULL]
    [] ISIMM(insn, n) ->
         [r |-> Bitv(IMM(insn, n)),
          carry |-> IF carry_out
                       /\ (ISIMM(insn, n + 1) \/ IMM(insn, n).hi > 0 \/ IMM(insn, n).lo > \hff)
                    THEN (IF IMM(insn, n).hi >= \h8000 THEN IL_TRUE ELSE IL_FALSE)
                    ELSE NULL]
    [] ISMEM(insn, n) ->
         [r |-> arg_mem(insn, n,
                        IF MEMDISP(insn, n) > 0
                          THEN ADD(MEMBASE(insn, n), U32(MEMDISP(insn, n)))
                        ELSE IF MEMDISP(insn, n) < 0
                          THEN SUB(MEMBASE(insn, n), U32(-MEMDISP(insn, n)))
                        ELSE MEMBASE(insn, n)),
          carry |-> NULL]
    [] OTHER -> [r |-> NULL, carry |-> NULL]

ARG(insn, n) == arg(insn, n, FALSE).r

update_flags_zn(v) == SEQ(<<SETG("zf", IS_ZERO(v)), SETG("nf", MSB(DUP(v)))>>)

(* mov once the value and its carry are known *)
mov_val(insn, v) ==
  IF v.r = NULL THEN NULL
  ELSE IF REGID(insn, 0) = "ARM_REG_PC"
    THEN (IF insn.update_flags THEN NULL ELSE JMP(v.r))
  ELSE IF write_reg(REGID(insn, 0), v.r) = NULL THEN NULL
  ELSE IF insn.update_flags
    THEN (IF v.carry # NULL
          THEN SEQ(<<write_reg(REGID(insn, 0), v.r), SETG("cf", v.carry),
                     update_flags_zn(DUP(v.r))>>)
          ELSE SEQ(<<write_reg(REGID(insn, 0), v.r), update_flags_zn(DUP(v.r))>>))
  ELSE write_reg(REGID(insn, 0), v.r)

(* mov leaves through err, where it frees carry and val *)
mov_err(insn) ==
  /\ ISREG(insn, 0) /\ (ISIMM(insn, 1) \/ ISREG(insn, 1))
  /\ arg(insn, 1, insn.update_flags).r # NULL
  /\ IF REGID(insn, 0) = "ARM_REG_PC" THEN insn.update_flags
     ELSE write_reg(REGID(insn, 0), arg(insn, 1, insn.update_flags).r) = NULL

(* carry is assigned by arg only when mov asks for it, which it does when  *)
(* the instruction updates the flags; err then frees a pointer never set   *)
mov_frees_unset_carry(insn) ==
  insn.id = "ARM_INS_MOV" /\ mov_err(insn) /\ ~insn.update_flags

mov(insn) ==
  IF ~ISREG(insn, 0) \/ (~ISIMM(insn, 1) /\ ~ISREG(insn, 1)) THEN NULL
  ELSE mov_val(insn, arg(insn, 1, insn.update_flags))

(* the 33-bit sum whose top bit is the carry of an add *)
extended_res(with_carry) ==
  IF with_carry
  THEN ADD(ADD(UNSIGNED(33, VARL("a")), UNSIGNED(33, VARL("b"))),
           ITE(VARG("cf"), UN(33, 1), UN(33, 0)))
  ELSE ADD(UNSIGNED(33, VARL("a")), UNSIGNED(33, VARL("b")))

(* the add that reads its operands again once the destination is written *)
add_uncaptured(insn, a, b, res) ==
  IF REGID(insn, 0) = "ARM_REG_PC"
    THEN (IF insn.update_flags THEN NULL ELSE JMP(res))
  ELSE IF insn.update_flags /\ insn.mnemonic # "adc"
    THEN SEQ(<<write_reg(REGID(insn, 0), res),
               SETL("a", DUP(a)),
               SETL("b", DUP(b)),
               SETG("cf", MSB(extended_res(insn.id = "ARM_INS_ADC"))),
               SETG("vf", AND(INV(XOR(MSB(VARL("a")), MSB(VARL("b")))),
                              XOR(MSB(VARL("a")), MSB(REG(insn, 0))))),
               update_flags_zn(REG(insn, 0))>>)
  ELSE write_reg(REGID(insn, 0), res)

(* add once the operands a and b and their sum res are built *)
add_res(insn, a, b, res) ==
  IF REGID(insn, 0) = "ARM_REG_PC"
    THEN (IF insn.update_flags THEN NULL ELSE JMP(res))
  ELSE IF insn.update_flags /\ insn.mnemonic # "adc"
    THEN SEQ(<<SETL("a", DUP(a)),
               SETL("b", DUP(b)),
               write_reg(REGID(insn, 0), res),
               SETG("cf", MSB(extended_res(insn.id = "ARM_INS_ADC"))),
               SETG("vf", AND(INV(XOR(MSB(VARL("a")), MSB(VARL("b")))),
                              XOR(MSB(VARL("a")), MSB(REG(insn, 0))))),
               update_flags_zn(REG(insn, 0))>>)
  ELSE write_reg(REGID(insn, 0), res)

add_args(insn, a, b) ==
  IF a = NULL \/ b = NULL THEN NULL
  ELSE add_res(insn, a, b,
               IF insn.id = "ARM_INS_ADC"
               THEN ADD(ADD(a, b), ITE(VARG("cf"), U32(1), U32(0)))
               ELSE ADD(a, b))

add(insn) ==
  IF ~ISREG(insn, 0) THEN NULL
  ELSE add_args(insn, ARG(insn, IF OPCOUNT(insn) > 2 THEN 1 ELSE 0),
                ARG(insn, IF OPCOUNT(insn) > 2 THEN 2 ELSE 1))

ldr_addr(insn, addr) ==
  IF addr = NULL THEN NULL
  ELSE IF REGID(insn, 0) = "ARM_REG_PC"
    THEN JMP(CASE insn.id = "ARM_INS_LDRB" -> UNSIGNED(32, LOAD(addr))
               [] insn.id = "ARM_INS_LDRH" -> UNSIGNED(32, LOADW(16, addr))
               [] OTHER -> LOADW(32, addr))
  ELSE write_reg(REGID(insn, 0),
                 CASE insn.id = "ARM_INS_LDRB" -> UNSIGNED(32, LOAD(addr))
                   [] insn.id = "ARM_INS_LDRH" -> UNSIGNED(32, LOADW(16, addr))
                   [] OTHER -> LOADW(32, addr))

ldr(insn) ==
  IF ~ISREG(insn, 0) \/ ~ISMEM(insn, 1) THEN NULL ELSE ldr_addr(insn, ARG(insn, 1))

str_addr(insn, addr, val) ==
  IF addr = NULL \/ val = NULL THEN NULL
  ELSE CASE insn.id = "ARM_INS_STRB" -> STORE(addr, UNSIGNED(8, val))
         [] insn.id = "ARM_INS_STRH" -> STOREW(addr, UNSIGNED(16, val))
         [] OTHER -> STOREW(addr, val)

str(insn) ==
  IF ~ISREG(insn, 0) \/ ~ISMEM(insn, 1) THEN NULL
  ELSE str_addr(insn, ARG(insn, 1), ARG(insn, 0))

il_unconditional(insn) ==
  CASE insn.id = "ARM_INS_B" ->
         (IF ARG(insn, 0) # NULL THEN JMP(ARG(insn, 0)) ELSE NULL)
    [] insn.id = "ARM_INS_MOV" -> mov(insn)
    [] insn.id \in {"ARM_INS_ADD", "ARM_INS_ADC"} -> add(insn)
    [] insn.id \in {"ARM_INS_LDR", "ARM_INS_LDRB", "ARM_INS_LDRH"} -> ldr(insn)
    [] insn.id \in {"ARM_INS_STR", "ARM_INS_STRB", "ARM_INS_STRH"} -> str(insn)
    [] OTHER -> NULL

(* the lifter that leaves the guard out *)
guard_dropped(eff, c) == eff

(* rz_arm_cs_32_il once the unconditional effect and the condition are     *)
(* built                                                                   *)
guard(eff, c) ==
  IF eff = NULL THEN NULL
  ELSE IF c # NULL THEN BRANCH(c, eff, NOP)
  ELSE eff

rz_arm_cs_32_il(insn) == guard(il_unconditional(insn), cond(insn.cc))

-----------------------------------------------------------------------------
(* The evaluation of an IL program in a state [g, l, mem, pc, conds]: the  *)
(* global variables, the local ones, the words stored, the target jumped   *)
(* to and the number of branch conditions evaluated.                       *)

LoBits(len) == IF len < 16 THEN len ELSE 16

HiBits(len) == len - LoBits(len)

bv_add(x, y) ==
  BV(x.len, (x.hi + y.hi + ((x.lo + y.lo) \div Pow2(LoBits(x.len)))) % Pow2(HiBits(x.len)),
     (x.lo + y.lo) % Pow2(LoBits(x.len)))

bv_neg(x) ==
  BV(x.len, (Pow2(HiBits(x.len)) - 1 - x.hi + (IF x.lo = 0 THEN 1 ELSE 0)) % Pow2(HiBits(x.len)),
     (Pow2(LoBits(x.len)) - x.lo) % Pow2(LoBits(x.len)))

bv_sub(x, y) == bv_add(x, bv_neg(y))

bv_msb(x) ==
  IF x.len > 16 THEN x.hi \div Pow2(x.len - 17) = 1 ELSE x.lo \div Pow2(x.len - 1) = 1

bv_is_zero(x) == x.hi = 0 /\ x.lo = 0

bv_cast(len, x) == BV(len, x.hi % Pow2(HiBits(len)), x.lo % Pow2(LoBits(len)))

(* the shifts of a 32-bit vector by n in 0..31, in 16-bit halves *)
bv_shl(x, n) ==
  IF n >= 16 THEN BV(x.len, (x.lo * Pow2(n - 16)) % 65536, 0)
  ELSE BV(x.len, ((x.hi * Pow2(n)) % 65536) + ((x.lo * Pow2(n)) \div 65536),
          (x.lo * Pow2(n)) % 65536)

(* the n top bits, set when the bit shifted in is *)
bv_fill(fill, n) ==
  IF ~fill THEN [hi |-> 0, lo |-> 0]
  ELSE IF n <= 16 THEN [hi |-> 65536 - Pow2(16 - n), lo |-> 0]
  ELSE [hi |-> 65535, lo |-> 65536 - Pow2(32 - n)]

bv_shr(fill, x, n) ==
  IF n >= 16 THEN BV(x.len, bv_fill(fill, n).hi, (x.hi \div Pow2(n - 16)) + bv_fill(fill, n).lo)
  ELSE BV(x.len, (x.hi \div Pow2(n)) + bv_fill(fill, n).hi,
          (x.lo \div Pow2(n)) + (x.hi % Pow2(n)) * Pow2(16 - n))

bv_or(x, y) == BV(x.len, Or(x.hi, y.hi), Or(x.lo, y.lo))

(* the key of an address in the map of stored words *)
Key(x) == <<x.hi, x.lo>>

RECURSIVE EvalPure(_, _)
EvalPure(p, st) ==
  CASE p.op = "bitv" -> p.val
    [] p.op = "b" -> p.name = "true"
    [] p.op = "var" -> st.g[p.name]
    [] p.op = "varl" -> st.l[p.name]
    [] p.op = "inv" -> ~EvalPure(p.args[1], st)
    [] p.op = "and" -> EvalPure(p.args[1], st) /\ EvalPure(p.args[2], st)
    [] p.op = "xor" -> EvalPure(p.args[1], st) # EvalPure(p.args[2], st)
    [] p.op = "add" -> bv_add(EvalPure(p.args[1], st), EvalPure(p.args[2], st))
    [] p.op = "sub" -> bv_sub(EvalPure(p.args[1], st), EvalPure(p.args[2], st))
    [] p.op = "ite" -> IF EvalPure(p.args[1], st) THEN EvalPure(p.args[2], st)
                       ELSE EvalPure(p.args[3], st)
    [] p.op = "msb" -> bv_msb(EvalPure(p.args[1], st))
    [] p.op = "is_zero" -> bv_is_zero(EvalPure(p.args[1], st))
    [] p.op = "cast" -> bv_cast(p.val.len, EvalPure(p.args[1], st))
    [] p.op = "shiftl" -> bv_shl(EvalPure(p.args[2], st), EvalPure(p.args[3], st).lo)
    [] p.op = "shiftr" ->
         bv_shr(EvalPure(p.args[1], st), EvalPure(p.args[2], st), EvalPure(p.args[3], st).lo)
    [] p.op = "logor" -> bv_or(EvalPure(p.args[1], st), EvalPure(p.args[2], st))
    [] p.op = "loadw" ->
         IF Key(EvalPure(p.args[1], st)) \in DOMAIN st.mem
         THEN bv_cast(p.val.len, st.mem[Key(EvalPure(p.args[1], st))])
         ELSE BV(p.val.len, 0, 0)

(* the function f with x mapped to v *)
Put(f, x, v) == [y \in DOMAIN f \cup {x} |-> IF y = x THEN v ELSE f[y]]

RECURSIVE Exec(_, _)
RECURSIVE ExecSeq(_, _, _)
ExecSeq(es, i, st) == IF i > Len(es) THEN st ELSE ExecSeq(es, i + 1, Exec(es[i], st))

Exec(e, st) ==
  CASE e.op = "nop" -> st
    [] e.op = "set" -> [st EXCEPT !.g = Put(@, e.name, EvalPure(e.args[1], st))]
    [] e.op = "setl" -> [st EXCEPT !.l = Put(@, e.name, EvalPure(e.args[1], st))]
    [] e.op = "storew" ->
         [st EXCEPT !.mem = Put(@, Key(EvalPure(e.args[1], st)), EvalPure(e.args[2], st))]
    [] e.op = "jmp" -> [st EXCEPT !.pc = <<EvalPure(e.args[1], st)>>]
    [] e.op = "seq" -> ExecSeq(e.args, 1, st)
    [] e.op = "branch" ->
         IF EvalPure(e.args[1], st)
         THEN Exec(e.args[2], [st EXCEPT !.conds = @ + 1])
         ELSE Exec(e.args[3], [st EXCEPT !.conds = @ + 1])

-----------------------------------------------------------------------------
(* Lifting an instruction and running its program.                         *)

W(hi, lo) == BV(32, hi, lo)

(* operand values at and around the carries of 32 bits *)
Values ==
  {W(0, 0), W(0, 1), W(0, 3), W(0, 5), W(\h7fff, \hffff), W(\h8000, 0), W(\hffff, \hffff)}

Conditions ==
  {"ARM_CC_EQ", "ARM_CC_NE", "ARM_CC_HS", "ARM_CC_LO", "ARM_CC_MI", "ARM_CC_PL", "ARM_CC_VS",
   "ARM_CC_VC", "ARM_CC_HI", "ARM_CC_LS", "ARM_CC_GE", "ARM_CC_LT", "ARM_CC_GT", "ARM_CC_LE",
   "ARM_CC_AL"}

RegOp(reg) == [NoOperand EXCEPT !.type = "ARM_OP_REG", !.reg = reg]

ImmOp(v) == [NoOperand EXCEPT !.type = "ARM_OP_IMM", !.imm = v]

MemOp(base, disp) == [NoOperand EXCEPT !.type = "ARM_OP_MEM", !.reg = base, !.disp = disp]

(* a memory operand with an index register, shifted, added or subtracted *)
MemIndexOp(base, disp, index, type, value, subtracted) ==
  [MemOp(base, disp) EXCEPT !.index = index, !.shift = [type |-> type, value |-> value],
                           !.subtracted = subtracted]

Insn(id, mnemonic, update_flags, operands) ==
  [id |-> id, mnemonic |-> mnemonic, update_flags |-> update_flags, operands |-> operands,
   cc |-> "ARM_CC_AL", address |-> \h100]

(* the flag-setting and the plain adds, with the destination apart from    *)
(* the sources and among them                                              *)
Adds ==
  {Insn("ARM_INS_ADD", "adds", TRUE, <<RegOp("ARM_REG_R0"), RegOp("ARM_REG_R1"), RegOp("ARM_REG_R2")>>),
   Insn("ARM_INS_ADD", "adds", TRUE, <<RegOp("ARM_REG_R1"), RegOp("ARM_REG_R1"), RegOp("ARM_REG_R2")>>),
   Insn("ARM_INS_ADD", "adds", TRUE, <<RegOp("ARM_REG_R2"), RegOp("ARM_REG_R1"), RegOp("ARM_REG_R2")>>),
   Insn("ARM_INS_ADD", "adds", TRUE, <<RegOp("ARM_REG_R1"), RegOp("ARM_REG_R2")>>),
   Insn("ARM_INS_ADD", "adds", TRUE, <<RegOp("ARM_REG_R1"), RegOp("ARM_REG_R1"), RegOp("ARM_REG_R1")>>),
   Insn("ARM_INS_ADD", "adds", TRUE, <<RegOp("ARM_REG_R0"), RegOp("ARM_REG_R1"), ImmOp(W(\hffff, \hfffb))>>),
   Insn("ARM_INS_ADD", "adds", TRUE, <<RegOp("ARM_REG_R0"), RegOp("ARM_REG_PC"), RegOp("ARM_REG_R2")>>),
   Insn("ARM_INS_ADC", "adcs", TRUE, <<RegOp("ARM_REG_R0"), RegOp("ARM_REG_R1"), RegOp("ARM_REG_R2")>>),
   Insn("ARM_INS_ADC", "adcs", TRUE, <<RegOp("ARM_REG_R2"), RegOp("ARM_REG_R1"), RegOp("ARM_REG_R2")>>),
   Insn("ARM_INS_ADC", "adcs", TRUE, <<RegOp("ARM_REG_R1"), RegOp("ARM_REG_R2")>>),
   Insn("ARM_INS_ADC", "adc", TRUE, <<RegOp("ARM_REG_R0"), RegOp("ARM_REG_R1"), RegOp("ARM_REG_R2")>>),
   Insn("ARM_INS_ADD", "add", FALSE, <<RegOp("ARM_REG_R0"), RegOp("ARM_REG_R1"), RegOp("ARM_REG_R2")>>),
   Insn("ARM_INS_ADD", "add", FALSE, <<RegOp("ARM_REG_PC"), RegOp("ARM_REG_R1"), RegOp("ARM_REG_R2")>>)}

(* instructions of each kind il_unconditional tells apart, and some it    *)
(* does not lift                                                           *)
Others ==
  {Insn("ARM_INS_ADD", "adds", TRUE, <<RegOp("ARM_REG_R0"), RegOp("ARM_REG_R1"), RegOp("ARM_REG_R2")>>),
   Insn("ARM_INS_MOV", "mov", FALSE, <<RegOp("ARM_REG_R0"), ImmOp(W(0, 1))>>),
   Insn("ARM_INS_MOV", "movs", TRUE, <<RegOp("ARM_REG_R0"), ImmOp(W(\h8000, 0))>>),
   Insn("ARM_INS_MOV", "movs", TRUE, <<RegOp("ARM_REG_PC"), RegOp("ARM_REG_LR")>>),
   Insn("ARM_INS_B", "b", FALSE, <<ImmOp(W(0, \h200))>>),
   Insn("ARM_INS_STR", "str", FALSE, <<RegOp("ARM_REG_R1"), MemOp("ARM_REG_R2", 4)>>),
   Insn("ARM_INS_LDR", "ldr", FALSE, <<RegOp("ARM_REG_R0"), MemOp("ARM_REG_SP", -4)>>),
   Insn("ARM_INS_ADD", "add", FALSE, <<ImmOp(W(0, 1)), RegOp("ARM_REG_R1")>>),
   Insn("ARM_INS_SUB", "sub", FALSE, <<RegOp("ARM_REG_R0"), RegOp("ARM_REG_R1"), RegOp("ARM_REG_R2")>>)}

GlobalNames ==
  {"lr", "sp", "vf", "cf", "zf", "nf", "r0", "r1", "r2", "r3", "r4", "r5", "r6", "r7", "r8",
   "r9", "r10", "r11", "r12"}

(* the bound variables with r1 = a, r2 = b and the flags given *)
Globals(a, b, vf, cf, zf, nf) ==
  [v \in GlobalNames |->
     CASE v = "vf" -> vf [] v = "cf" -> cf [] v = "zf" -> zf [] v = "nf" -> nf
       [] v = "r1" -> a [] v = "r2" -> b [] v = "r0" -> W(\h1234, \h5678)
       [] v = "sp" -> W(0, \h8000)
       [] OTHER -> W(0, 0)]

State(g) == [g |-> g, l |-> [v \in {} |-> 0], mem |-> [k \in {} |-> 0], pc |-> <<>>, conds |-> 0]

Lifted(insn, g) ==
  [kind |-> "lifted", insn |-> insn, il |-> rz_arm_cs_32_il(insn), before |-> State(g),
   st |-> State(g)]

(* the lifter did not return *)
Crashed(insn, g) == [Lifted(insn, g) EXCEPT !.kind = "crashed", !.il = NULL]

(* what a call of rz_arm_cs_32_il can come to: freeing a pointer never set *)
(* returns or takes the process down                                       *)
Lifts(insn, g) ==
  IF mov_frees_unset_carry(insn) THEN {Lifted(insn, g), Crashed(insn, g)}
  ELSE {Lifted(insn, g)}

(* mov and movs of immediates below and above 8 bits, with and without a   *)
(* rotation operand, and of a register                                     *)
Movs ==
  {Insn("ARM_INS_MOV", "movs", TRUE, <<RegOp("ARM_REG_R0"), ImmOp(W(0, \h12))>>),
   Insn("ARM_INS_MOV", "movs", TRUE, <<RegOp("ARM_REG_R0"), ImmOp(W(0, 0))>>),
   Insn("ARM_INS_MOV", "movs", TRUE, <<RegOp("ARM_REG_R0"), ImmOp(W(0, \hff))>>),
   Insn("ARM_INS_MOV", "movs", TRUE, <<RegOp("ARM_REG_R0"), ImmOp(W(0, \h100))>>),
   Insn("ARM_INS_MOV", "movs", TRUE, <<RegOp("ARM_REG_R0"), ImmOp(W(\h400, 0))>>),
   Insn("ARM_INS_MOV", "movs", TRUE, <<RegOp("ARM_REG_R0"), ImmOp(W(\h8000, 0))>>),
   Insn("ARM_INS_MOV", "movs", TRUE, <<RegOp("ARM_REG_R0"), ImmOp(W(\hff00, 0))>>),
   Insn("ARM_INS_MOV", "movs", TRUE, <<RegOp("ARM_REG_R0"), ImmOp(W(0, 0)), ImmOp(W(0, 2))>>),
   Insn("ARM_INS_MOV", "movs", TRUE, <<RegOp("ARM_REG_R0"), ImmOp(W(0, \h12)), ImmOp(W(0, 4))>>),
   Insn("ARM_INS_MOV", "movs", TRUE, <<RegOp("ARM_REG_R0"), RegOp("ARM_REG_R1")>>),
   Insn("ARM_INS_MOV", "movs", TRUE, <<RegOp("ARM_REG_R1"), RegOp("ARM_REG_R1")>>),
   Insn("ARM_INS_MOV", "movs", TRUE, <<RegOp("ARM_REG_R0"), RegOp("ARM_REG_R1"), ImmOp(W(0, 2))>>),
   Insn("ARM_INS_MOV", "mov", FALSE, <<RegOp("ARM_REG_R0"), ImmOp(W(\h8000, 0))>>),
   Insn("ARM_INS_MOV", "mov", FALSE, <<RegOp("ARM_REG_R0"), ImmOp(W(0, 0)), ImmOp(W(0, 2))>>),
   Insn("ARM_INS_MOV", "mov", FALSE, <<RegOp("ARM_REG_R0"), RegOp("ARM_REG_R1")>>)}

Ldr(mem) == Insn("ARM_INS_LDR", "ldr", FALSE, <<RegOp("ARM_REG_R0"), mem>>)

Str(mem) == Insn("ARM_INS_STR", "str", FALSE, <<RegOp("ARM_REG_R0"), mem>>)

(* loads and stores at a base with a displacement, and at a base with an   *)
(* index, added and subtracted, under each kind of shift                   *)
Mems ==
  {Ldr(MemOp("ARM_REG_R1", 0)), Ldr(MemOp("ARM_REG_R1", 4)), Ldr(MemOp("ARM_REG_R1", -4)),
   Str(MemOp("ARM_REG_R1", 4095)), Str(MemOp("ARM_REG_R1", -4095)), Str(MemOp("ARM_REG_PC", 8)),
   Ldr(MemIndexOp("ARM_REG_R1", 0, "ARM_REG_R2", "ARM_SFT_INVALID", 0, FALSE)),
   Str(MemIndexOp("ARM_REG_R1", 0, "ARM_REG_R2", "ARM_SFT_INVALID", 0, FALSE)),
   Str(MemIndexOp("ARM_REG_R1", 0, "ARM_REG_R2", "ARM_SFT_INVALID", 0, TRUE)),
   Ldr(MemIndexOp("ARM_REG_R1", 0, "ARM_REG_R2", "ARM_SFT_LSL", 2, FALSE)),
   Ldr(MemIndexOp("ARM_REG_R1", 0, "ARM_REG_R2", "ARM_SFT_LSL", 2, TRUE)),
   Str(MemIndexOp("ARM_REG_R1", 0, "ARM_REG_R2", "ARM_SFT_LSL", 31, FALSE)),
   Str(MemIndexOp("ARM_REG_R1", 0, "ARM_REG_R2", "ARM_SFT_LSR", 4, FALSE)),
   Ldr(MemIndexOp("ARM_REG_R1", 0, "ARM_REG_R2", "ARM_SFT_LSR", 17, FALSE)),
   Ldr(MemIndexOp("ARM_REG_R1", 0, "ARM_REG_R2", "ARM_SFT_ASR", 4, FALSE)),
   Str(MemIndexOp("ARM_REG_R1", 0, "ARM_REG_R2", "ARM_SFT_ASR", 31, FALSE)),
   Str(MemIndexOp("ARM_REG_R1", 0, "ARM_REG_R2", "ARM_SFT_ROR", 1, FALSE)),
   Ldr(MemIndexOp("ARM_REG_R1", 0, "ARM_REG_R2", "ARM_SFT_ROR", 8, FALSE)),
   Ldr(MemIndexOp("ARM_REG_R1", 0, "ARM_REG_R2", "ARM_SFT_ROR", 16, FALSE)),
   Str(MemIndexOp("ARM_REG_R1", 0, "ARM_REG_R2", "ARM_SFT_ROR", 31, FALSE)),
   Str(MemIndexOp("ARM_REG_R1", 0, "ARM_REG_R2", "ARM_SFT_RRX", 0, FALSE)),
   Ldr(MemIndexOp("ARM_REG_R1", 0, "ARM_REG_R1", "ARM_SFT_RRX", 0, FALSE))}

(* a register no variable is bound to *)
S0 == "ARM_REG_S0"

(* mov, add, ldr and str with an unbound register as the destination, as a *)
(* source, as the base and as the index, with and without the flags        *)
Unbounds ==
  {Insn("ARM_INS_MOV", "mov", FALSE, <<RegOp(S0), RegOp("ARM_REG_R1")>>),
   Insn("ARM_INS_MOV", "movs", TRUE, <<RegOp(S0), RegOp("ARM_REG_R1")>>),
   Insn("ARM_INS_MOV", "movs", TRUE, <<RegOp(S0), ImmOp(W(0, \h100))>>),
   Insn("ARM_INS_MOV", "mov", FALSE, <<RegOp("ARM_REG_R0"), RegOp(S0)>>),
   Insn("ARM_INS_MOV", "movs", TRUE, <<RegOp("ARM_REG_R0"), RegOp(S0)>>),
   Insn("ARM_INS_MOV", "mov", FALSE, <<RegOp("ARM_REG_PC"), RegOp(S0)>>),
   Insn("ARM_INS_ADD", "add", FALSE, <<RegOp(S0), RegOp("ARM_REG_R1"), RegOp("ARM_REG_R2")>>),
   Insn("ARM_INS_ADD", "adds", TRUE, <<RegOp(S0), RegOp("ARM_REG_R1"), RegOp("ARM_REG_R2")>>),
   Insn("ARM_INS_ADC", "adcs", TRUE, <<RegOp(S0), RegOp("ARM_REG_R1"), RegOp("ARM_REG_R2")>>),
   Insn("ARM_INS_ADC", "adc", TRUE, <<RegOp(S0), RegOp("ARM_REG_R1"), RegOp("ARM_REG_R2")>>),
   Insn("ARM_INS_ADD", "adds", TRUE, <<RegOp("ARM_REG_R0"), RegOp(S0), RegOp("ARM_REG_R2")>>),
   Insn("ARM_INS_ADD", "adds", TRUE, <<RegOp("ARM_REG_R0"), RegOp("ARM_REG_R1"), RegOp(S0)>>),
   Insn("ARM_INS_ADD", "add", FALSE, <<RegOp("ARM_REG_R0"), RegOp(S0)>>),
   Insn("ARM_INS_ADD", "add", FALSE, <<RegOp("ARM_REG_PC"), RegOp(S0), RegOp("ARM_REG_R2")>>),
   Insn("ARM_INS_LDR", "ldr", FALSE, <<RegOp(S0), MemOp("ARM_REG_R1", 4)>>),
   Insn("ARM_INS_LDR", "ldr", FALSE, <<RegOp("ARM_REG_R0"), MemOp(S0, 4)>>),
   Insn("ARM_INS_LDRB", "ldrb", FALSE, <<RegOp("ARM_REG_R0"), MemOp(S0, 0)>>),
   Insn("ARM_INS_LDRH", "ldrh", FALSE, <<RegOp("ARM_REG_R0"), MemOp(S0, -4)>>),
   Insn("ARM_INS_LDR", "ldr", FALSE,
        <<RegOp("ARM_REG_R0"), MemIndexOp("ARM_REG_R1", 0, S0, "ARM_SFT_INVALID", 0, FALSE)>>),
   Insn("ARM_INS_LDR", "ldr", FALSE,
        <<RegOp("ARM_REG_PC"), MemIndexOp("ARM_REG_R1", 0, S0, "ARM_SFT_LSL", 2, FALSE)>>),
   Insn("ARM_INS_STR", "str", FALSE, <<RegOp(S0), MemOp("ARM_REG_R1", 0)>>),
   Insn("ARM_INS_STRB", "strb", FALSE, <<RegOp("ARM_REG_R0"), MemOp(S0, -4)>>),
   Insn("ARM_INS_STRH", "strh", FALSE,
        <<RegOp("ARM_REG_R0"), MemIndexOp("ARM_REG_R1", 4, S0, "ARM_SFT_ROR", 8, FALSE)>>),
   Insn("ARM_INS_STR", "str", FALSE,
        <<RegOp("ARM_REG_R0"), MemIndexOp(S0, 0, "ARM_REG_R2", "ARM_SFT_INVALID", 0, TRUE)>>)}

(* a program with an effect or an expression missing somewhere in it *)
RECURSIVE Missing(_)
Missing(il) ==
  il # NULL /\ \E i \in 1..Len(il.args) : il.args[i] = NULL \/ Missing(il.args[i])

InitArm == Init

(* rz_arm_cs_32_il of an instruction, with the state its program will run  *)
(* in                                                                      *)
Lift ==
  /\ arm_il.kind = "none"
  /\ \/ \E insn \in Adds, a \in Values, b \in Values, cf \in BOOLEAN :
          arm_il' \in Lifts(insn, Globals(a, b, FALSE, cf, FALSE, FALSE))
     \/ \E insn \in Others, c \in Conditions, vf \in BOOLEAN, cf \in BOOLEAN, zf \in BOOLEAN,
           nf \in BOOLEAN :
          arm_il' \in Lifts([insn EXCEPT !.cc = c], Globals(W(0, 3), W(0, 5), vf, cf, zf, nf))
     \/ \E insn \in Movs, a \in Values, cf \in BOOLEAN, zf \in BOOLEAN, nf \in BOOLEAN :
          arm_il' \in Lifts(insn, Globals(a, W(0, 5), FALSE, cf, zf, nf))
     \/ \E insn \in Mems, a \in Values, b \in Values, cf \in BOOLEAN :
          arm_il' \in Lifts(insn, Globals(a, b, FALSE, cf, FALSE, FALSE))
     \/ \E insn \in Unbounds, c \in {"ARM_CC_AL", "ARM_CC_NE"} :
          arm_il' \in Lifts([insn EXCEPT !.cc = c],
                            Globals(W(0, 3), W(0, 5), FALSE, FALSE, FALSE, FALSE))
  /\ UNCHANGED <<decoder, cpu_cache, inherit_cpu_p, esil_regs, lookup, esil_run, mask>>

(* the interpreter runs the program lifted, a whole one *)
RunIl ==
  /\ arm_il.kind = "lifted" /\ arm_il.il # NULL /\ ~Missing(arm_il.il)
  /\ arm_il' = [arm_il EXCEPT !.kind = "ran", !.st = Exec(arm_il.il, arm_il.st)]
  /\ UNCHANGED <<decoder, cpu_cache, inherit_cpu_p, esil_regs, lookup, esil_run, mask>>

NextArm == Lift \/ RunIl

SpecArm == InitArm /\ [][NextArm]_vars

(* the flags an instruction was lifted under *)
Cf == arm_il.before.g["cf"]

Zf == arm_il.before.g["zf"]

Nf == arm_il.before.g["nf"]

Vf == arm_il.before.g["vf"]

(* the value of condition c under those flags *)
Holds(c) == EvalPure(cond(c), arm_il.before)

(* an instruction has been lifted to a guarded program *)
Guarded == arm_il.kind # "none" /\ arm_il.il.op = "branch"

(* C15, as stated: under every flag state the condition of HI is C and not *)
(* Z, that of LS is (not C) or Z, and LS holds exactly when HI does not.   *)
C15_UnsignedConditions ==
  Guarded =>
    /\ arm_il.insn.cc = "ARM_CC_HI" => (EvalPure(arm_il.il.args[1], arm_il.before) <=> (Cf /\ ~Zf))
    /\ arm_il.insn.cc = "ARM_CC_LS" => (EvalPure(arm_il.il.args[1], arm_il.before) <=> (~Cf \/ Zf))
    /\ Holds("ARM_CC_LS") <=> ~Holds("ARM_CC_HI")

(* C16, as stated: under every flag state the condition of GE is not (N    *)
(* xor V), of LT N xor V, of GT (not Z) and not (N xor V), of LE Z or (N   *)
(* xor V); LE holds exactly when GT does not and LT exactly when GE does   *)
(* not.                                                                    *)
C16_SignedConditions ==
  Guarded =>
    /\ arm_il.insn.cc = "ARM_CC_GE" => (EvalPure(arm_il.il.args[1], arm_il.before) <=> (Nf = Vf))
    /\ arm_il.insn.cc = "ARM_CC_LT" => (EvalPure(arm_il.il.args[1], arm_il.before) <=> (Nf # Vf))
    /\ arm_il.insn.cc = "ARM_CC_GT"
         => (EvalPure(arm_il.il.args[1], arm_il.before) <=> (~Zf /\ Nf = Vf))
    /\ arm_il.insn.cc = "ARM_CC_LE"
         => (EvalPure(arm_il.il.args[1], arm_il.before) <=> (Zf \/ Nf # Vf))
    /\ Holds("ARM_CC_LE") <=> ~Holds("ARM_CC_GT")
    /\ Holds("ARM_CC_LT") <=> ~Holds("ARM_CC_GE")

(* the state before the program, one branch condition evaluated *)
Decided == [arm_il.before EXCEPT !.conds = 1]

(* C17: the program of a conditional instruction evaluates the condition   *)
(* once and then runs the whole unconditional effect or changes nothing;   *)
(* under Always the program is the unconditional effect itself; and an     *)
(* instruction that cannot be lifted has no program under any condition.   *)
C17_ConditionalLift ==
  arm_il.kind # "none" =>
    /\ il_unconditional(arm_il.insn) = NULL => arm_il.il = NULL
    /\ (il_unconditional(arm_il.insn) # NULL /\ arm_il.insn.cc = "ARM_CC_AL")
         => arm_il.il = il_unconditional(arm_il.insn)
    /\ (il_unconditional(arm_il.insn) # NULL /\ arm_il.insn.cc # "ARM_CC_AL")
         => /\ arm_il.il # NULL
            /\ arm_il.kind = "ran"
                 => /\ arm_il.st.conds = 1
                    /\ Holds(arm_il.insn.cc)
                         => arm_il.st = Exec(il_unconditional(arm_il.insn), Decided)
                    /\ ~Holds(arm_il.insn.cc) => arm_il.st = Decided

(* a store under NE has run with Z set and stored nothing, and one under   *)
(* EQ would have                                                           *)
C17_Witness ==
  /\ arm_il.kind = "ran" /\ arm_il.insn.id = "ARM_INS_STR" /\ arm_il.insn.cc = "ARM_CC_NE"
  /\ Zf /\ arm_il.st.conds = 1
  /\ arm_il.st.mem = arm_il.before.mem /\ arm_il.st.g = arm_il.before.g
  /\ Exec(il_unconditional(arm_il.insn), arm_il.before).mem # arm_il.before.mem

(* the value operand n of the instruction had before the program ran *)
Source(n) ==
  CASE ISIMM(arm_il.insn, n) -> IMM(arm_il.insn, n)
    [] REGID(arm_il.insn, n) = "ARM_REG_PC" -> W(0, arm_il.insn.address)
    [] OTHER -> arm_il.before.g[reg_var_name(REGID(arm_il.insn, n))]

SourceA == Source(IF OPCOUNT(arm_il.insn) > 2 THEN 1 ELSE 0)

SourceB == Source(IF OPCOUNT(arm_il.insn) > 2 THEN 2 ELSE 1)

CarryIn == IF arm_il.insn.id = "ARM_INS_ADC" /\ Cf THEN 1 ELSE 0

(* the sum of the sources and the carry in 16-bit halves: the low half     *)
(* with its carry, and the high half with the carry out of 32 bits         *)
SumLo == SourceA.lo + SourceB.lo + CarryIn

SumHi == SourceA.hi + SourceB.hi + (SumLo \div 65536)

Dest == arm_il.st.g[reg_var_name(REGID(arm_il.insn, 0))]

Negative(v) == v.hi >= \h8000

(* a flag-setting add has run *)
AddsRan ==
  /\ arm_il.kind = "ran" /\ arm_il.insn.mnemonic \in {"adds", "adcs"}
  /\ arm_il.insn.cc = "ARM_CC_AL" \/ Holds(arm_il.insn.cc)

(* C20: a flag-setting add leaves dest = (a + b [+ carry]) mod 2^32, Z =    *)
(* (dest = 0), N = msb(dest), C = bit 32 of the 33-bit sum and V = 1       *)
(* exactly when a and b have equal sign bits that differ from dest's,      *)
(* also when the destination is one of the sources.                        *)
C20_AddFlags ==
  AddsRan =>
    /\ Dest = W(SumHi % 65536, SumLo % 65536)
    /\ arm_il.st.g["zf"] <=> (SumHi % 65536 = 0 /\ SumLo % 65536 = 0)
    /\ arm_il.st.g["nf"] <=> Negative(Dest)
    /\ arm_il.st.g["cf"] <=> SumHi >= 65536
    /\ arm_il.st.g["vf"] <=> (/\ Negative(SourceA) = Negative(SourceB)
                              /\ Negative(SourceA) # Negative(Dest))

(* adcs r2, r1, r2 has run with the carry set on 0xffffffff and 0: the     *)
(* destination, a source, is 0 and the carry is out                        *)
C20_Witness ==
  /\ AddsRan /\ arm_il.insn.mnemonic = "adcs" /\ Cf
  /\ REGID(arm_il.insn, 0) = "ARM_REG_R2" /\ OPCOUNT(arm_il.insn) = 3
  /\ SourceA = W(\hffff, \hffff) /\ SourceB = W(0, 0)
  /\ Dest = W(0, 0) /\ arm_il.st.g["cf"] /\ arm_il.st.g["zf"]

-----------------------------------------------------------------------------
(* The interpreter's run of a program of op.esil.  A number on the stack   *)
(* stands for its value modulo 2^64; the programs run here keep every      *)
(* value within 17 bits of 0, and read no more than its low 16 bits.       *)

(* the operator a token names, "" for a number or a register *)
OpName(t) == IF t[1] = "lit" THEN t[2] ELSE ""

IsFlag(t) == t[1] = "lit" /\ t[2] \in Flags

(* the width the register profile gives a register: sp 16 bits, pc and the *)
(* memory bases 32, a flag 1, r0..r31 8                                    *)
reg_bits(t) ==
  CASE IsFlag(t) -> 1
    [] t = L("sp") -> 16
    [] t \in {L("pc"), L("_ram")} -> 32
    [] OTHER -> 8

(* esil_internal_sizeof_reg *)
sizeof_reg(t) == reg_bits(t)

(* rz_analysis_esil_reg_write: the value cut to the register's width, a    *)
(* flag set by any value other than 0; the values written to a register of *)
(* 32 bits here are within its range                                       *)
reg_write(run, t, v) ==
  [run EXCEPT !.reg[t] = IF IsFlag(t) THEN (IF v = 0 THEN 0 ELSE 1)
                         ELSE IF reg_bits(t) = 32 THEN v
                         ELSE v % Pow2(reg_bits(t))]

(* rz_analysis_esil_pop: [t, run], t = <<>> for NULL *)
esil_pop(run) ==
  IF run.stack = <<>> THEN [t |-> <<>>, run |-> [run EXCEPT !.underflow = TRUE]]
  ELSE [t |-> <<run.stack[Len(run.stack)]>>,
        run |-> [run EXCEPT !.stack = SubSeq(@, 1, Len(@) - 1)]]

esil_push(run, t) == [run EXCEPT !.stack = Append(@, t)]

esil_pushnum(run, v) == esil_push(run, Num(v))

(* the value of what was popped, <<>> if there is none *)
Parm(run, p) == IF p.t = <<>> THEN <<>> ELSE get_parm(run, p.t[1])

IsReg(run, p) == p.t # <<>> /\ p.t[1] \in DOMAIN run.reg

(* dst and src popped: [dst, src, d, s, run] *)
Pop2Of(run, p1, p2) ==
  [dst |-> p1, src |-> p2, d |-> Parm(run, p1), s |-> Parm(run, p2), run |-> p2.run]

Pop2(run) == Pop2Of(run, esil_pop(run), esil_pop(esil_pop(run).run))

(* the low bits + 1 bits of v: v & genmask(bits) for 0 < bits < 64 *)
Low(v, bits) == v % Pow2(bits + 1)

BitAnd(d, s) == And(d % 65536, s % 65536)

BitOr(d, s) == Or(d % 65536, s % 65536)

BitXor(d, s) == Or(d % 65536, s % 65536) - And(d % 65536, s % 65536)

(* what the operator o makes of dst = d and src = s *)
Apply(o, d, s) ==
  CASE o = "+" -> d + s
    [] o = "-" -> d - s
    [] o = "&" -> BitAnd(d, s)
    [] o = "|" -> BitOr(d, s)
    [] o = "^" -> BitXor(d, s)
    [] o = "<<" -> d * Pow2(s)
    [] o = ">>" -> d \div Pow2(s)

(* esil_add, esil_sub, esil_and, esil_or, esil_xor, esil_lsl, esil_lsr *)
Binary(w, o) ==
  IF w.d = <<>> \/ w.s = <<>> THEN Failed(w.run)
  ELSE esil_pushnum(w.run, Apply(o, w.d[1], w.s[1]))

(* esil_addeq, esil_subeq, esil_andeq, esil_oreq, esil_xoreq *)
OpEq(w, o) ==
  IF w.s = <<>> \/ ~IsReg(w.run, w.dst) THEN Failed(w.run)
  ELSE reg_write([w.run EXCEPT !.old = w.d[1], !.cur = Apply(o, w.d[1], w.s[1]),
                               !.lastsz = sizeof_reg(w.dst.t[1])],
                 w.dst.t[1], Apply(o, w.d[1], w.s[1]))

(* esil_eq *)
esil_eq(w) ==
  IF w.s = <<>> \/ ~IsReg(w.run, w.dst) THEN Failed(w.run)
  ELSE reg_write([w.run EXCEPT !.old = w.d[1], !.cur = w.s[1],
                               !.lastsz = sizeof_reg(w.dst.t[1])],
                 w.dst.t[1], w.s[1])

(* esil_weak_eq *)
esil_weak_eq(w) ==
  IF w.s = <<>> \/ ~IsReg(w.run, w.dst) THEN Failed(w.run)
  ELSE reg_write(w.run, w.dst.t[1], w.s[1])

(* esil_cmp *)
esil_cmp(w) ==
  IF w.d = <<>> \/ w.s = <<>> THEN Failed(w.run)
  ELSE [w.run EXCEPT !.old = w.d[1], !.cur = w.d[1] - w.s[1],
                     !.lastsz = IF IsReg(w.run, w.dst) THEN sizeof_reg(w.dst.t[1])
                                ELSE IF IsReg(w.run, w.src) THEN sizeof_reg(w.src.t[1])
                                ELSE 64]

(* esil_neg *)
esil_neg(run, p) ==
  IF Parm(run, p) = <<>> THEN Failed(p.run)
  ELSE esil_pushnum(p.run, IF Parm(run, p)[1] = 0 THEN 1 ELSE 0)

(* esil_dup *)
esil_dup(run, p) ==
  IF p.t = <<>> THEN Failed(p.run)
  ELSE esil_push(esil_push(p.run, p.t[1]), p.t[1])

Bool(b) == IF b THEN 1 ELSE 0

(* the n bytes of v, low byte first, and the value of such bytes *)
LeBytes(v, n) == [i \in 1..n |-> (v \div Pow2(8 * (i - 1))) % 256]

RECURSIVE LeValue(_)
LeValue(bs) == IF bs = <<>> THEN 0 ELSE Head(bs) + 256 * LeValue(Tail(bs))

(* esil_poke_n: dst is the address, src the value stored in n bytes *)
esil_poke_n(w, n) ==
  IF w.d = <<>> \/ w.s = <<>> THEN Failed(w.run)
  ELSE [w.run EXCEPT !.mem = mem_write(@, w.d[1], LeBytes(w.s[1], n))]

(* esil_peek_n: the n bytes at the address popped, pushed as a number *)
esil_peek_n(run, p, n) ==
  IF Parm(run, p) = <<>> THEN Failed(p.run)
  ELSE esil_pushnum([p.run EXCEPT !.lastsz = 8 * n,
                                  !.loaded = @ \cup {Parm(run, p)[1] + i : i \in 0..(n - 1)}],
                    LeValue(mem_read(p.run.mem, Parm(run, p)[1], n)))

(* esil_zf *)
esil_zf(run) == esil_pushnum(run, Bool(run.cur % Pow2(run.lastsz) = 0))

(* esil_cf: the carry out of bit *)
carry(run, bit) == Low(run.cur, bit) < Low(run.old, bit)

esil_cf(run, p) ==
  IF Parm(run, p) = <<>> THEN Failed(p.run)
  ELSE esil_pushnum(p.run, Bool(carry(run, Parm(run, p)[1])))

(* esil_bf: the borrow into bit *)
esil_bf(run, p) ==
  IF Parm(run, p) = <<>> THEN Failed(p.run)
  ELSE esil_pushnum(p.run, Bool(Low(run.old, Parm(run, p)[1] - 1)
                                  < Low(run.cur, Parm(run, p)[1] - 1)))

(* esil_of: the carry out of bit differs from the carry into it *)
esil_of(run, p) ==
  IF Parm(run, p) = <<>> THEN Failed(p.run)
  ELSE esil_pushnum(p.run, Bool(carry(run, Parm(run, p)[1])
                                  # carry(run, Parm(run, p)[1] - 1)))

(* runword: an operator is run, any other word pushed *)
runword(run, t) ==
  CASE OpName(t) \in {"+", "-", "&", "|", "^", "<<", ">>"} -> Binary(Pop2(run), OpName(t))
    [] OpName(t) = "+=" -> OpEq(Pop2(run), "+")
    [] OpName(t) = "-=" -> OpEq(Pop2(run), "-")
    [] OpName(t) = "&=" -> OpEq(Pop2(run), "&")
    [] OpName(t) = "|=" -> OpEq(Pop2(run), "|")
    [] OpName(t) = "^=" -> OpEq(Pop2(run), "^")
    [] OpName(t) = "=" -> esil_eq(Pop2(run))
    [] OpName(t) = ":=" -> esil_weak_eq(Pop2(run))
    [] OpName(t) = "==" -> esil_cmp(Pop2(run))
    [] OpName(t) = "!" -> esil_neg(run, esil_pop(run))
    [] OpName(t) = "DUP" -> esil_dup(run, esil_pop(run))
    [] OpName(t) = "$z" -> esil_zf(run)
    [] OpName(t) = "$c" -> esil_cf(run, esil_pop(run))
    [] OpName(t) = "$b" -> esil_bf(run, esil_pop(run))
    [] OpName(t) = "$o" -> esil_of(run, esil_pop(run))
    [] t[1] = "=[%d]" -> esil_poke_n(Pop2(run), t[3])
    [] t[1] = "[%d]" -> esil_peek_n(run, esil_pop(run), t[3])
    [] OTHER -> esil_push(run, t)

(* rz_analysis_esil_parse from word i on: the words between the commas in  *)
(* turn, until one fails                                                   *)
RECURSIVE esil_parse(_, _, _)
esil_parse(run, prog, i) ==
  IF i > Len(prog) \/ ~run.ok THEN run
  ELSE IF prog[i] = Sep THEN esil_parse(run, prog, i + 1)
  ELSE esil_parse(runword(run, prog[i]), prog, i + 1)

-----------------------------------------------------------------------------
(* Decoding an arithmetic or logical instruction and running its program.  *)

(* the instruction words: Rd, Rr; Rd, K; Rd; and Rd+1:Rd, K *)
TwoRegs(base, d, r) ==
  [w |-> base + 512 * (r \div 16) + 256 * (d \div 16) + 16 * (d % 16) + (r % 16),
   d |-> d, r |-> r, k |-> 0, form |-> "Rd, Rr"]

RegImm(base, d, k) ==
  [w |-> base + 256 * (k \div 16) + 16 * (d - 16) + (k % 16),
   d |-> d, r |-> d, k |-> k, form |-> "Rd, K"]

OneReg(base, d) == [w |-> base + 16 * d, d |-> d, r |-> d, k |-> 0, form |-> "Rd"]

WordImm(base, d, k) ==
  [w |-> base + 64 * (k \div 16) + 16 * ((d - 24) \div 2) + (k % 16),
   d |-> d, r |-> d + 1, k |-> k, form |-> "Rd+1:Rd, K"]

(* register and immediate values at the carries of 4, 7 and 8 bits *)
Vals8 == {\h00, \h01, \h0f, \h10, \h7f, \h80, \hff}

(* add, adc, sub, sbc, and, eor, or, cp, cpc *)
TwoRegBases == {\h0c00, \h1c00, \h1800, \h0800, \h2000, \h2400, \h2800, \h1400, \h0400}

(* cpi, sbci, subi, ori, andi *)
RegImmBases == {\h3000, \h4000, \h5000, \h6000, \h7000}

(* com, neg, inc, dec *)
OneRegBases == {\h9400, \h9401, \h9403, \h940a}

(* adiw, sbiw *)
WordImmBases == {\h9600, \h9700}

Instructions ==
  {TwoRegs(b, 17, 18) : b \in TwoRegBases}
  \cup {TwoRegs(b, 17, 17) : b \in {\h0c00, \h2000, \h2400}}
  \cup {RegImm(b, 17, k) : b \in RegImmBases, k \in Vals8}
  \cup {OneReg(b, 17) : b \in OneRegBases}
  \cup {WordImm(b, 26, k) : b \in WordImmBases, k \in {0, 1, 63}}

(* the registers with Rd = dv, the other register of the instruction = rv  *)
(* and the flags C = cf, S = sf                                            *)
RegsOf(ins, dv, rv, cf, sf) ==
  [t \in RegFile |->
     CASE t = R(ins.d) -> dv
       [] t = R(ins.r) -> rv
       [] t = L("cf") -> cf
       [] t = L("sf") -> sf
       [] OTHER -> 0]

(* the call of avr_op on the instruction word w *)
Decode(w) ==
  [NoCall EXCEPT !.entry = "avr_op", !.buf = Buf(w, 0, 0), !.len = 2, !.addr = 0,
                 !.cpu = "ATmega8", !.dis = Dis(2, "ins"), !.rec = InitOp]

(* the session that is to run the program avr_op left in op.esil *)
Program(out, ins, regs) ==
  [Session("esil", "ATmega8", <<>>,
           [ins |-> ins, name |-> IF out.desc = 0 THEN "" ELSE out.c.tab[out.desc].name,
            reg |-> regs])
     EXCEPT !.reg = regs, !.prog = out.op.esil]

InitEsil == Init

(* avr_op decodes an instruction for the interpreter *)
Emitted(out, ins, regs) ==
  /\ esil_run' = Program(out, ins, regs)
  /\ opcodes' = out.c.tab
  /\ cpu_cache' = out.cache
  /\ inherit_cpu_p' = out.inh
  /\ esil_regs' = out.regs
  /\ UNCHANGED <<pc_, call_, op, ret, opcode_desc, next_op, reads, depth, calls, prev, lookup,
                 arm_il, mask>>

Emit ==
  /\ esil_run.kind = "none"
  /\ \E ins \in Instructions, dv \in Vals8, rv \in Vals8, cf \in 0..1, sf \in 0..1 :
       /\ ins.r = ins.d => rv = dv
       /\ Emitted(avr_op(Decode(ins.w), InitOp, opcodes, cpu_cache, inherit_cpu_p, esil_regs),
                  ins, RegsOf(ins, dv, rv, cf, sf))

(* the interpreter runs the program *)
RunProgram ==
  /\ esil_run.kind = "esil" /\ ~esil_run.done
  /\ esil_run' = [esil_parse(esil_run, esil_run.prog, 1) EXCEPT !.done = TRUE]
  /\ UNCHANGED <<decoder, cpu_cache, inherit_cpu_p, esil_regs, lookup, arm_il, mask>>

NextEsil == Emit \/ RunProgram

SpecEsil == InitEsil /\ [][NextEsil]_vars

(* the registers before the program and after it *)
Before(t) == esil_run.arg.reg[t]

After(t) == esil_run.reg[t]

Rd == Before(R(esil_run.arg.ins.d))

(* the second operand: the immediate, or the other register *)
Rr ==
  IF esil_run.arg.ins.form \in {"Rd, K", "Rd+1:Rd, K"} THEN esil_run.arg.ins.k
  ELSE Before(R(esil_run.arg.ins.r))

(* the register pair Rd+1:Rd *)
Pair == 256 * Before(R(esil_run.arg.ins.d + 1)) + Rd

IsWord == esil_run.arg.ins.form = "Rd+1:Rd, K"

(* the result the instruction named computes *)
Result ==
  CASE esil_run.arg.name = "add" -> (Rd + Rr) % 256
    [] esil_run.arg.name = "adc" -> (Rd + Rr + Before(L("cf"))) % 256
    [] esil_run.arg.name \in {"sub", "subi", "cp", "cpi"} -> (Rd - Rr) % 256
    [] esil_run.arg.name \in {"sbc", "sbci", "cpc"} -> (Rd - Rr - Before(L("cf"))) % 256
    [] esil_run.arg.name = "inc" -> (Rd + 1) % 256
    [] esil_run.arg.name = "dec" -> (Rd - 1) % 256
    [] esil_run.arg.name = "neg" -> (0 - Rd) % 256
    [] esil_run.arg.name = "adiw" -> (Pair + Rr) % 65536
    [] esil_run.arg.name = "sbiw" -> (Pair - Rr) % 65536
    [] esil_run.arg.name \in {"and", "andi"} -> And(Rd, Rr)
    [] esil_run.arg.name \in {"or", "ori"} -> Or(Rd, Rr)
    [] esil_run.arg.name = "eor" -> Or(Rd, Rr) - And(Rd, Rr)
    [] esil_run.arg.name = "com" -> 255 - Rd

Msb == IF IsWord THEN Result \div 32768 ELSE Result \div 128

Arithmetic ==
  {"add", "adc", "sub", "subi", "sbc", "sbci", "cp", "cpc", "cpi", "inc", "dec", "neg", "adiw",
   "sbiw"}

Logical == {"and", "andi", "or", "ori", "eor", "com"}

(* the program of an instruction named in names has run *)
HasRun(ns) == esil_run.kind = "esil" /\ esil_run.done /\ esil_run.arg.name \in ns

(* C18, as stated: after the program of an arithmetic or compare           *)
(* instruction, from every register and flag state, S = N xor V, Z =       *)
(* (result = 0) and N = the most significant bit of the result.            *)
C18_ArithmeticFlags ==
  HasRun(Arithmetic) =>
    /\ After(L("sf")) = (After(L("nf")) + After(L("vf"))) % 2
    /\ After(L("zf")) = Bool(Result = 0)
    /\ After(L("nf")) = Msb

(* C19, as stated: after the program of a logical instruction the          *)
(* destination holds the bitwise result, V = 0, N = bit 7 of the result,   *)
(* S = N and Z = (result = 0), and the program never pops an empty stack.  *)
C19_LogicalFlags ==
  HasRun(Logical) =>
    /\ ~esil_run.underflow
    /\ After(R(esil_run.arg.ins.d)) = Result
    /\ After(L("vf")) = 0
    /\ After(L("nf")) = Msb
    /\ After(L("sf")) = After(L("nf"))
    /\ After(L("zf")) = Bool(Result = 0)

-----------------------------------------------------------------------------
(* Unbound registers in the ARM lifter.                                    *)

(* a register read_reg and write_reg have no variable for; pc is read as   *)
(* the address and written as a jump                                       *)
Unbound(reg) == reg # "ARM_REG_PC" /\ reg_var_name(reg) = ""

(* operand n names a register without a binding *)
NamesUnbound(insn, n) ==
  \/ ISREG(insn, n) /\ Unbound(REGID(insn, n))
  \/ ISMEM(insn, n)
       /\ \/ Unbound(Operand(insn, n).reg)
          \/ Operand(insn, n).index # "ARM_REG_INVALID" /\ Unbound(Operand(insn, n).index)

(* an instruction of mov, add, ldr or str whose operands its handler takes *)
(* and one of which names a register without a binding                     *)
UnboundCase ==
  /\ arm_il.kind # "none"
  /\ \/ arm_il.insn.id = "ARM_INS_MOV" /\ ISREG(arm_il.insn, 0)
          /\ (ISIMM(arm_il.insn, 1) \/ ISREG(arm_il.insn, 1))
     \/ arm_il.insn.id \in {"ARM_INS_ADD", "ARM_INS_ADC"} /\ ISREG(arm_il.insn, 0)
     \/ arm_il.insn.id \in {"ARM_INS_LDR", "ARM_INS_LDRB", "ARM_INS_LDRH", "ARM_INS_STR",
                             "ARM_INS_STRB", "ARM_INS_STRH"}
          /\ ISREG(arm_il.insn, 0) /\ ISMEM(arm_il.insn, 1)
  /\ \E n \in 0..(OPCOUNT(arm_il.insn) - 1) : NamesUnbound(arm_il.insn, n)

(* C21, as stated: when an operand or the destination of a mov, add, ldr   *)
(* or str names a register without a binding, the lifter returns, and      *)
(* returns no program at all.                                              *)
C21_UnboundRegisterLiftsNothing ==
  UnboundCase => arm_il.kind = "lifted" /\ arm_il.il = NULL

-----------------------------------------------------------------------------
(* The carry of an immediate operand.                                      *)

(* operand n of the instruction lifted is an immediate with a rotation: a  *)
(* further immediate follows it, or it does not fit 8 bits                 *)
Rotated(n) ==
  /\ ISIMM(arm_il.insn, n)
  /\ ISIMM(arm_il.insn, n + 1) \/ Source(n).hi > 0 \/ Source(n).lo > 255

(* a mov to a register other than pc has run *)
MovRan ==
  /\ arm_il.kind = "ran" /\ arm_il.insn.id = "ARM_INS_MOV"
  /\ arm_il.insn.cc = "ARM_CC_AL" /\ REGID(arm_il.insn, 0) # "ARM_REG_PC"

(* the variables a mov may change: the destination, and Z and N when it    *)
(* updates the flags, and C when its operand has a rotation as well        *)
MovWrites ==
  {reg_var_name(REGID(arm_il.insn, 0))}
    \cup (IF arm_il.insn.update_flags THEN {"zf", "nf"} ELSE {})
    \cup (IF arm_il.insn.update_flags /\ Rotated(1) THEN {"cf"} ELSE {})

(* C24: arg gives a carry exactly for an immediate with a rotation when    *)
(* the carry is asked for, and the carry is bit 31 of the immediate; a mov *)
(* that updates the flags sets C to that carry, and otherwise leaves C     *)
(* alone and changes only the destination, Z and N.                        *)
C24_ImmediateCarry ==
  arm_il.kind # "none" /\ arm_il.insn.id = "ARM_INS_MOV" =>
    /\ \A n \in 0..2 :
         /\ arg(arm_il.insn, n, FALSE).carry = NULL
         /\ arg(arm_il.insn, n, TRUE).carry # NULL <=> Rotated(n)
         /\ Rotated(n)
              => (EvalPure(arg(arm_il.insn, n, TRUE).carry, arm_il.before)
                    <=> Negative(Source(n)))
    /\ MovRan =>
         /\ Dest = Source(1)
         /\ \A v \in GlobalNames \ MovWrites : arm_il.st.g[v] = arm_il.before.g[v]
         /\ arm_il.insn.update_flags =>
              /\ arm_il.st.g["zf"] <=> Source(1) = W(0, 0)
              /\ arm_il.st.g["nf"] <=> Negative(Source(1))
              /\ Rotated(1) => (arm_il.st.g["cf"] <=> Negative(Source(1)))
         /\ arm_il.st.mem = arm_il.before.mem /\ arm_il.st.pc = arm_il.before.pc

(* movs r0, #0x12 has run with the carry set and left it set, and movs r0, *)
(* #0x80000000 would have set it from clear                                *)
C24_Witness ==
  /\ MovRan /\ arm_il.insn.update_flags /\ Source(1) = W(0, \h12) /\ ~Rotated(1)
  /\ Cf /\ arm_il.st.g["cf"] /\ ~arm_il.st.g["nf"] /\ Dest = W(0, \h12)
  /\ arg([arm_il.insn EXCEPT !.operands[2] = ImmOp(W(\h8000, 0))], 1, TRUE).carry = IL_TRUE

-----------------------------------------------------------------------------
(* The address of a memory operand.                                        *)

(* bit i of a 32-bit value, and the value of 32 bits *)
BitOf(v, i) == IF i < 16 THEN (v.lo \div Pow2(i)) % 2 ELSE (v.hi \div Pow2(i - 16)) % 2

RECURSIVE HalfOf(_, _, _)
HalfOf(b, from, i) == IF i = 16 THEN 0 ELSE b[from + i] * Pow2(i) + HalfOf(b, from, i + 1)

OfBits(b) == W(HalfOf(b, 16, 0), HalfOf(b, 0, 0))

(* v shifted by d the way the architecture defines each kind; c is the     *)
(* carry flag                                                              *)
ShiftedBy(v, type, d, c) ==
  CASE type = "ARM_SFT_LSL" -> OfBits([i \in 0..31 |-> IF i >= d THEN BitOf(v, i - d) ELSE 0])
    [] type = "ARM_SFT_LSR" -> OfBits([i \in 0..31 |-> IF i + d <= 31 THEN BitOf(v, i + d) ELSE 0])
    [] type = "ARM_SFT_ASR" ->
         OfBits([i \in 0..31 |-> IF i + d <= 31 THEN BitOf(v, i + d) ELSE BitOf(v, 31)])
    [] type = "ARM_SFT_ROR" -> OfBits([i \in 0..31 |-> BitOf(v, (i + d) % 32)])
    [] type = "ARM_SFT_RRX" ->
         OfBits([i \in 0..31 |-> IF i = 31 THEN (IF c THEN 1 ELSE 0) ELSE BitOf(v, i + 1)])
    [] OTHER -> v

(* sums and differences modulo 2^32 *)
Plus32(x, y) == W((x.hi + y.hi + ((x.lo + y.lo) \div 65536)) % 65536, (x.lo + y.lo) % 65536)

Minus32(x, y) == Plus32(Plus32(x, W(65535 - y.hi, 65535 - y.lo)), W(0, 1))

(* a signed displacement as a value of 32 bits *)
Disp32(d) == W((d \div 65536) % 65536, d % 65536)

(* the value of a register before the program *)
RegValue(reg) ==
  IF reg = "ARM_REG_PC" THEN W(0, arm_il.insn.address)
  ELSE arm_il.before.g[reg_var_name(reg)]

MemOperand == Operand(arm_il.insn, 1)

IndexValue ==
  ShiftedBy(RegValue(MemOperand.index), MemOperand.shift.type, MemOperand.shift.value, Cf)

(* the address the architecture gives the memory operand *)
Address ==
  IF MemOperand.index = "ARM_REG_INVALID"
    THEN Plus32(RegValue(MemOperand.reg), Disp32(MemOperand.disp))
  ELSE IF MemOperand.subtracted
    THEN Minus32(Plus32(RegValue(MemOperand.reg), Disp32(MemOperand.disp)), IndexValue)
  ELSE Plus32(Plus32(RegValue(MemOperand.reg), Disp32(MemOperand.disp)), IndexValue)

(* a load or a store has been lifted to a program *)
MemLifted ==
  /\ arm_il.kind # "none" /\ arm_il.il # NULL /\ ISMEM(arm_il.insn, 1)
  /\ arm_il.insn.id \in {"ARM_INS_LDR", "ARM_INS_LDRB", "ARM_INS_LDRH", "ARM_INS_STR",
                          "ARM_INS_STRB", "ARM_INS_STRH"}

(* C25, as stated: the address of a memory operand is base + signed        *)
(* displacement, plus the shifted index when it is added and minus the     *)
(* shifted index when it is subtracted, the index shifted by the operand's *)
(* kind and amount; a store writes there.                                  *)
C25_MemoryAddress ==
  MemLifted =>
    /\ EvalPure(ARG(arm_il.insn, 1), arm_il.before) = Address
    /\ (arm_il.kind = "ran" /\ arm_il.insn.id = "ARM_INS_STR"
          /\ (arm_il.insn.cc = "ARM_CC_AL" \/ Holds(arm_il.insn.cc)))
         => DOMAIN arm_il.st.mem = {Key(Address)}

-----------------------------------------------------------------------------
(* The memoized parent references of cpu_models.                           *)

Models == 1..Len(cpu_models)

(* the last lookup of a model went through the table, not the cache *)
Searched ==
  /\ lookup.kind = "model"
  /\ ~(lookup.before # 0 /\ rz_str_casecmp_eq(lookup.name, cpu_models[lookup.before].model))

(* the model n steps up the parent references from i, 0 past the root *)
RECURSIVE Up(_, _)
Up(i, n) == IF n = 0 \/ i = 0 THEN i ELSE Up(inherit_cpu_p[i], n - 1)

(* each reference is unset or is the model its variant names as parent; a  *)
(* model a search returned has its reference set if it names a parent; no  *)
(* model is its own ancestor                                               *)
ParentsResolved ==
  /\ \A i \in Models :
       inherit_cpu_p[i] # 0
         => /\ cpu_models[i].inherit # ""
            /\ cpu_models[inherit_cpu_p[i]].model = cpu_models[i].inherit
  /\ (Searched /\ cpu_models[lookup.cpu].inherit # "") => inherit_cpu_p[lookup.cpu] # 0
  /\ \A i \in Models : \A n \in Models : Up(i, n) # i

(* a reference that is set stays as it is *)
ParentsKept == \A i \in Models : inherit_cpu_p[i] # 0 => inherit_cpu_p'[i] = inherit_cpu_p[i]

(* C23: in every state reached by lookups each memoized parent reference   *)
(* is unset or the model of the declared parent's name, a reference once   *)
(* set never changes, a model returned by a search of the table has its    *)
(* reference set when it declares a parent, and the references form a      *)
(* forest.                                                                 *)
C23_ParentsMemoized == []ParentsResolved /\ [][ParentsKept]_vars

(* ATmega88 has been found by a search while the cache held another model, *)
(* and its reference is ATmega8 while those of the ATmega640 family are    *)
(* unset                                                                   *)
C23_Witness ==
  /\ Searched /\ lookup.before # 0 /\ cpu_models[lookup.cpu].model = "ATmega88"
  /\ inherit_cpu_p[lookup.cpu] = Named("ATmega8")
  /\ inherit_cpu_p[Named("ATmega1280")] = 0

-----------------------------------------------------------------------------
(* The target of the 4-byte jmp and call.                                  *)

(* the word address k of a 4-byte jmp or call: bits 21..17 from bits 8..4  *)
(* of the first word, bit 16 from its bit 0, bits 15..0 the second word    *)
WordAddress ==
  ((call_.buf[1] \div 16) % 32) * 131072 + (call_.buf[1] % 2) * 65536 + call_.buf[2]

(* C26, as stated: the jump target of a 4-byte jmp or call is twice the    *)
(* 22-bit word address of the instruction, the same for jmp and for call,  *)
(* and call records address + 4 as the fallthrough.                        *)
C26_LongJumpTarget ==
  (Scanned /\ Name \in {"call", "jmp"} /\ call_.len >= 4)
    => /\ op.jump = 2 * WordAddress
       /\ Name = "call" => op.fail = call_.addr + 4

-----------------------------------------------------------------------------
(* A page fill and then a page write.                                      *)

(* a page write has run after a fill at an even offset inside a page *)
FilledAndWritten ==
  /\ esil_run.kind = "SPM_PAGE_WRITE" /\ esil_run.done /\ esil_run.ok
  /\ esil_run.arg.a % 2 = 0 /\ esil_run.arg.a < Pow2(PageBits)

(* the target rounded down to the page size *)
AlignedTarget == esil_run.target - (esil_run.target % Pow2(PageBits))

(* C27, as stated: after a fill of (r0, r1) at the even offset o of a page *)
(* and a page write to T, the memory at aligned(T) + o holds r0 and at     *)
(* aligned(T) + o + 1 holds r1, whatever base decode put in _page.         *)
C27_FillThenWriteCommits ==
  FilledAndWritten =>
    /\ AlignedTarget + esil_run.arg.a + 1 \in DOMAIN esil_run.mem
    /\ esil_run.mem[AlignedTarget + esil_run.arg.a] = esil_run.arg.r0
    /\ esil_run.mem[AlignedTarget + esil_run.arg.a + 1] = esil_run.arg.r1

-----------------------------------------------------------------------------
(* The stack: the program of a call or push, then that of ret or pop, run  *)
(* by the interpreter in one session.                                      *)

(* call k, rcall k and push r17, each with the instruction that undoes it: *)
(* ret, ret and pop r18; r is the register pushed and d the one popped     *)
StackPairs ==
  {[name |-> "call", first |-> <<\h940e, \h1234>>, size |-> 4, second |-> \h9508,
    r |-> 0, d |-> 0],
   [name |-> "rcall", first |-> <<\hd010, 0>>, size |-> 2, second |-> \h9508, r |-> 0, d |-> 0],
   [name |-> "push", first |-> <<\h920f + 16 * 17, 0>>, size |-> 2,
    second |-> \h900f + 16 * 18, r |-> 17, d |-> 18]}

StackPointers == {0, 1, 2, 3, \h25f, \hfffd, \hfffe, \hffff}

ReturnAddresses == {\h4, \h1f6, \h12346}

DecodeFor(cpu, w1, w2, size) ==
  [NoCall EXCEPT !.entry = "avr_op", !.buf = Buf(w1, w2, 0), !.len = 4, !.addr = 0,
                 !.cpu = cpu, !.dis = Dis(size, "ins"), !.rec = InitOp]

(* the registers of the session: the file, sp, pc and the base of the data *)
(* memory, which the layout avr_op writes puts at _io                      *)
StackRegs(sp, pc, ram, r, v) ==
  [t \in RegFile \cup {L("sp"), L("pc"), L("_ram")} |->
     CASE t = L("sp") -> sp
       [] t = L("pc") -> pc
       [] t = L("_ram") -> ram
       [] t = R(r) -> v
       [] OTHER -> 0]

(* the bytes a return address takes on the stack of the session's          *)
(* variant, the model get_cpu_model found for it                           *)
StackSize ==
  IF esil_run.arg.pair.name = "push" THEN 1 ELSE CPU_PC_SIZE(esil_run.arg.model)

StackDecoded(out, run) ==
  /\ esil_run' = [run EXCEPT !.prog = out.op.esil]
  /\ opcodes' = out.c.tab
  /\ cpu_cache' = out.cache
  /\ inherit_cpu_p' = out.inh
  /\ esil_regs' = out.regs
  /\ UNCHANGED <<pc_, call_, op, ret, opcode_desc, next_op, reads, depth, calls, prev, lookup,
                 arm_il, mask>>

(* avr_op decodes the call or the push for a session that starts with the  *)
(* memory unwritten                                                        *)
EmitPush ==
  /\ esil_run.kind = "none"
  /\ \E cpu \in CpuNames, pair \in StackPairs, sp \in StackPointers, pc \in ReturnAddresses,
        v \in {\h5a, \hff} :
       LET out == avr_op(DecodeFor(cpu, pair.first[1], pair.first[2], pair.size), InitOp,
                         opcodes, cpu_cache, inherit_cpu_p, esil_regs)
           regs == StackRegs(sp, pc, out.regs._io, pair.r, v)
       IN StackDecoded(out, [Session("push", cpu, <<>>,
                                     [pair |-> pair, reg |-> regs, written |-> <<>>,
                                      model |-> out.cache])
                               EXCEPT !.reg = regs])

(* the interpreter runs the program of the session *)
RunStack ==
  /\ esil_run.kind \in {"push", "pop"} /\ ~esil_run.done
  /\ esil_run' = [esil_parse(esil_run, esil_run.prog, 1) EXCEPT !.done = TRUE]
  /\ UNCHANGED <<decoder, cpu_cache, inherit_cpu_p, esil_regs, lookup, arm_il, mask>>

(* avr_op decodes the ret or the pop for the session the call or the push  *)
(* has run in                                                              *)
EmitPop ==
  /\ esil_run.kind = "push" /\ esil_run.done
  /\ StackDecoded(avr_op(DecodeFor(esil_run.cpu, esil_run.arg.pair.second, 0, 2), InitOp,
                         opcodes, cpu_cache, inherit_cpu_p, esil_regs),
                  [esil_run EXCEPT !.kind = "pop", !.done = FALSE, !.stack = <<>>,
                                   !.arg.written = esil_run.mem])

InitStack == Init

NextStack == EmitPush \/ RunStack \/ EmitPop

SpecStack == InitStack /\ [][NextStack]_vars

(* both programs have run *)
Popped == esil_run.kind = "pop" /\ esil_run.done

(* the value the push stored: the return address in its bytes, or r17 *)
Pushed ==
  IF esil_run.arg.pair.name = "push" THEN Before(R(esil_run.arg.pair.r))
  ELSE Before(L("pc")) % Pow2(8 * StackSize)

(* the register the pop loads *)
PopTarget == IF esil_run.arg.pair.name = "push" THEN R(esil_run.arg.pair.d) ELSE L("pc")

(* C28, as stated: for every variant and every stack pointer value, the    *)
(* program of a call and then that of ret load into pc the return address  *)
(* the call stored, read exactly the bytes the push wrote and restore sp;  *)
(* push r17 and then pop r18 leave r18 equal to the pushed value and sp    *)
(* unchanged.                                                              *)
C28_PushPopInverse ==
  Popped =>
    /\ esil_run.ok
    /\ After(PopTarget) = Pushed
    /\ esil_run.loaded = DOMAIN esil_run.arg.written
    /\ After(L("sp")) = Before(L("sp"))

-----------------------------------------------------------------------------
(* The chain of nested look-ahead decodes.                                 *)

(* the len the i-th nested call's caller was given *)
CallerLen(i) == IF i = 1 THEN call_.len ELSE next_op[i - 1].len

(* C22, as stated: for every input buffer, a run of several consecutive    *)
(* compare-and-skip instructions included, the depth of nested decode      *)
(* calls never exceeds one.                                                *)
C22_NestedDepthAtMostOne == pc_ = "done" => depth <= 1

(* C30: the chain of nested look-ahead decodes ends: each nested call is   *)
(* given a len 2 smaller than its caller's, a nested call with fewer than  *)
(* 2 bytes leaves its record as it was and makes no further call, and the  *)
(* nested calls number at most floor(len / 2).                             *)
C30_DecodingTerminates ==
  pc_ = "done" =>
    /\ \A i \in 1..Len(next_op) :
         /\ next_op[i].len = CallerLen(i) - 2
         /\ CallerLen(i) >= 2
         /\ next_op[i].len < 2 => next_op[i].op = ZeroOp /\ i = Len(next_op)
    /\ 2 * Len(next_op) <= IF call_.len > 0 THEN call_.len ELSE 0
    /\ depth = Len(next_op)
    /\ calls <= 1 + Len(next_op)

(* a buffer made of compare-and-skip instructions alone, each of which has *)
(* looked ahead, the last one into no bytes at all                         *)
C30_Witness ==
  /\ pc_ = "done"
  /\ call_.len = 2 * MaxWords
  /\ \A i \in 1..MaxWords : call_.buf[i] \in SkipWords
  /\ Len(next_op) = MaxWords
  /\ next_op[MaxWords].len = 0

-----------------------------------------------------------------------------
(* analysis_mask_avr: the mask of the bytes of a buffer of instructions.   *)

(* nop, call, jmp, lds, sts, cpse, rjmp and a word no descriptor matches *)
MaskWords == {\h0000, \h940e, \h940c, \h9000, \h9200, \h1000, \hc001, \hffff}

MaskSizes == 0..(2 * MaxWords)

(* the for loop's condition: idx + 1 < size, else the mask is returned *)
LoopTest(m) == IF m.idx + 1 < m.size THEN m ELSE [m EXCEPT !.kind = "done"]

(* ret = malloc(size), memset(ret, 0xff, size), cpu = get_cpu_model(...),  *)
(* idx = 0 and a record from rz_analysis_op_new                            *)
MaskStarted(data, size, at, m) ==
  LoopTest([kind |-> "loop", size |-> size, data |-> data, at |-> at, cpu |-> m.cpu,
            inh |-> m.inh, op |-> InitOp, ret |-> [i \in 0..(size - 1) |-> \hff],
            written |-> {}, idx |-> 0, steps |-> <<>>])

(* the arguments of the loop's call: data + idx, size - idx *)
MaskArgs(m, regs) ==
  [buf |-> Bytes(m.data), off |-> m.idx, len |-> m.size - m.idx, cpu |-> m.cpu, inh |-> m.inh,
   regs |-> regs, level |-> 0]

(* the bytes the body stores for the record o and the descriptor d its     *)
(* call returned: ret[idx + 2] and ret[idx + 3] for a size of 4, then the  *)
(* descriptor's mask at ret[idx] and ret[idx + 1] when ptr or jump is set  *)
MaskStores(m, o, d) ==
  (IF o.size = 4 THEN <<[at |-> m.idx + 2, byte |-> 0], [at |-> m.idx + 3, byte |-> 0]>>
   ELSE <<>>)
  \o (IF o.ptr # UT64_MAX \/ o.jump # UT64_MAX
      THEN <<[at |-> m.idx, byte |-> d.mask % 256], [at |-> m.idx + 1, byte |-> d.mask \div 256]>>
      ELSE <<>>)

(* the mask once the stores are made, those inside it *)
Stored(buf, stores) ==
  [i \in DOMAIN buf |->
     IF \E k \in 1..Len(stores) : stores[k].at = i
     THEN stores[CHOOSE k \in 1..Len(stores) : stores[k].at = i].byte
     ELSE buf[i]]

(* one iteration of the loop after its call left the record o and returned *)
(* the descriptor desc of tab (0 is NULL), up to the loop's next test.  A  *)
(* store outside the mask is a write beyond the allocation: the run goes   *)
(* on with the heap damaged, or it is stopped there                        *)
MaskBody(m, o, desc, tab) ==
  LET m1 == [m EXCEPT !.op = o, !.steps = Append(@, m.idx)]
      stores == MaskStores(m, o, tab[desc])
      m2 == [m1 EXCEPT !.ret = Stored(@, stores),
                       !.written = @ \cup {stores[k].at : k \in 1..Len(stores)},
                       !.idx = @ + o.size]
  IN IF o.size < 1 THEN {[m1 EXCEPT !.kind = "done"]}
     ELSE IF desc = 0 THEN {LoopTest([m1 EXCEPT !.idx = @ + o.size])}
     ELSE IF \E k \in 1..Len(stores) : stores[k].at >= m.size
     THEN {LoopTest(m2), [m2 EXCEPT !.kind = "crashed"]}
     ELSE {LoopTest(m2)}

(* analysis_mask_avr is called on size bytes of data *)
MaskCall ==
  /\ mask.kind = "none"
  /\ \E w1 \in MaskWords, w2 \in MaskWords, w3 \in MaskWords, size \in MaskSizes :
       LET m == get_cpu_model("ATmega8", cpu_cache, inherit_cpu_p)
       IN /\ mask' = MaskStarted(Buf(w1, w2, w3), size, \h200, m)
          /\ cpu_cache' = m.cache
          /\ inherit_cpu_p' = m.inh
  /\ UNCHANGED <<decoder, esil_regs, lookup, esil_run, arm_il>>

(* the loop decodes the instruction at idx and goes over it *)
MaskStep ==
  /\ mask.kind = "loop"
  /\ LET n == avr_op_analyze(Context(mask.op, opcodes), mask.at + mask.idx,
                             MaskArgs(mask, esil_regs))
     IN /\ mask' \in MaskBody(mask, n.c.op, n.desc, n.c.tab)
        /\ opcodes' = n.c.tab
  /\ UNCHANGED <<pc_, call_, op, ret, opcode_desc, next_op, reads, depth, calls, prev,
                 cpu_cache, inherit_cpu_p, esil_regs, lookup, esil_run, arm_il>>

InitMask == Init

NextMask == MaskCall \/ MaskStep

SpecMask == InitMask /\ [][NextMask]_vars

(* C29, as stated: for every input of size bytes analysis_mask_avr writes  *)
(* only to indices 0..size-1 of the mask it returns, also when the last    *)
(* instruction is a 4-byte encoding of which fewer than 4 bytes are        *)
(* present, and its loop advances by at least 2 bytes per iteration and    *)
(* terminates.                                                             *)
C29_MaskWithinBuffer ==
  mask.kind # "none" =>
    /\ mask.kind # "crashed"
    /\ \A i \in mask.written : 0 <= i /\ i < mask.size
    /\ \A k \in 1..(Len(mask.steps) - 1) : mask.steps[k + 1] >= mask.steps[k] + 2
    /\ 2 * Len(mask.steps) <= mask.size

=============================================================================
